---- MODULE Spec2Model ----
(***************************************************************************)
(* A model of Lab_1/Combo/combo.c (RP2040, two cores):                     *)
(*   - the fix15 (Q16.15) arithmetic macros;                               *)
(*   - the two 40 kHz DDS timer callbacks with their beep envelopes;       *)
(*   - the two heartbeat protothreads that ping-pong through the           *)
(*     semaphores core_0_go / core_1_go;                                   *)
(*   - the FFT protothread of core 0 and the DMA sample channel it waits   *)
(*     on and re-arms.                                                     *)
(* Three specifications share one initial state:                           *)
(*   Spec         the cooperative threads of both cores, the DMA engine    *)
(*                moving whole epochs;                                     *)
(*   SpecCapture  core 0's threads with the DMA engine moving one sample   *)
(*                per step;                                                *)
(*   SpecDDS      the two timer callbacks.                                 *)
(***************************************************************************)
EXTENDS Integers, Sequences, FiniteSets, TLC

(***************************************************************************)
(* Bounds of the model (not program constants).                            *)
(***************************************************************************)
\* The two 25 us timers run off one hardware clock: the number of ticks
\* core 1 is ahead of core 0 stays within MaxSkew of the start-up delay.
MaxSkew == 1
\* The callbacks are followed for MaxCycles beep cycles of core 0.
MaxCycles == 1

(***************************************************************************)
(* fix15 arithmetic (combo.c 46-54).  TLC integers are 32 bits wide, so a  *)
(* 64-bit product is computed from 15-bit halves and 32-bit words are      *)
(* assembled from 16-bit halves.                                           *)
(***************************************************************************)
\* The signed 32-bit value of the word with halves hi, lo (each 0..65535).
ToSigned32(hi, lo) ==
    IF hi >= 32768 THEN (hi - 65536) * 65536 + lo ELSE hi * 65536 + lo

\* Variant of multfix15: the product of the high halves is left out.
multfix15_nohigh(a, b) ==
    LET ah == a \div 32768
        al == a % 32768
        bh == b \div 32768
        bl == b % 32768
        T1 == ah * bl
        T2 == al * bh
        T3 == (al * bl) \div 32768
        lo == (T1 % 65536) + (T2 % 65536) + T3
        hi == ((T1 \div 65536) + (T2 \div 65536) + (lo \div 65536)) % 65536
    IN  ToSigned32(hi, lo % 65536)

\* ((signed long long)a * (signed long long)b) >> 15, cut to 32 bits.
multfix15(a, b) ==
    LET ah == a \div 32768
        al == a % 32768
        bh == b \div 32768
        bl == b % 32768
        u  == ah % 131072
        v  == bh % 131072
        \* ah * bh modulo 2^17
        P  == ((((u \div 512) * v) % 256) * 512 + (u % 512) * v) % 131072
        T1 == ah * bl
        T2 == al * bh
        T3 == (al * bl) \div 32768
        lo == (P % 2) * 32768 + (T1 % 65536) + (T2 % 65536) + T3
        hi == ((P \div 2) + (T1 \div 65536) + (T2 \div 65536) + (lo \div 65536)) % 65536
    IN  ToSigned32(hi, lo % 65536)

\* a << 15
int2fix15(a) == a * 32768

\* a >> 15 (arithmetic shift: rounds towards minus infinity)
fix2int15(a) == a \div 32768

\* The magnitude of the 32-bit signed a as the halves <<hi, lo>> of an
\* unsigned 32-bit word (|INT_MIN| = 2^31 included).
Magnitude32(a) ==
    IF a >= 0 THEN << a \div 65536, a % 65536 >>
    ELSE LET n  == -(a + 1)
             lo == (n % 65536) + 1
         IN  << (n \div 65536) + (lo \div 65536), lo % 65536 >>

\* Bit j (0 .. 31) of the word with halves w.
WordBit(w, j) ==
    IF j >= 16 THEN (w[1] \div 2^(j - 16)) % 2 ELSE (w[2] \div 2^j) % 2

\* The two's complement of the word with halves w.
WordNegate(w) ==
    LET lo == (65535 - w[2]) + 1
    IN  << ((65535 - w[1]) + (lo \div 65536)) % 65536, lo % 65536 >>

\* One step of the long division of x * 2^15 by d (0 < d < 2^31), at bit k
\* of the dividend: s = <<r, qhi, qlo>> is the remainder so far and the
\* halves of the low 32 bits of the quotient so far.
DivideStep(x, d, k, s) ==
    LET bit  == IF k >= 15 THEN WordBit(x, k - 15) ELSE 0
        \* 2r + bit >= d, without forming 2r + bit
        fits == s[1] >= (d - s[1]) - bit
        qlo  == 2 * s[3] + (IF fits THEN 1 ELSE 0)
    IN  << IF fits THEN s[1] - ((d - s[1]) - bit) ELSE 2 * s[1] + bit,
           (2 * s[2] + (qlo \div 65536)) % 65536,
           qlo % 65536 >>

\* The low 32 bits of (x * 2^15) \div d, by long division over the bits of
\* the dividend from bit k down; the remainder stays below d.
RECURSIVE LongDivide(_, _, _, _)
LongDivide(x, d, k, s) ==
    IF k < 0 THEN << s[2], s[3] >>
    ELSE LET t == DivideStep(x, d, k, s)
         IN  CASE t[1] < d -> LongDivide(x, d, k - 1, t)

\* (fix15)((((signed long long)a) << 15) / b) for b # 0: the 64-bit quotient,
\* truncated towards zero, cut to its low 32 bits.
divfix(a, b) ==
    LET x   == Magnitude32(a)
        q   == IF b = (-2147483647) - 1
               THEN << 0, x[1] >>
               ELSE LongDivide(x, IF b < 0 THEN -b ELSE b, 46, << 0, 0, 0 >>)
        neg == (a < 0) # (b < 0)
        w   == IF neg THEN WordNegate(q) ELSE q
    IN  ToSigned32(w[1], w[2])

(***************************************************************************)
(* DDS parameters and tables (combo.c 59-111, 586-594).                    *)
(***************************************************************************)
ATTACK_TIME == 3000
DECAY_TIME == 3000
SUSTAIN_TIME == 10000 - (ATTACK_TIME + DECAY_TIME)
BEEP_DURATION == ATTACK_TIME + SUSTAIN_TIME + DECAY_TIME
BEEP_REPEAT_INTERVAL == 40000
CHIRP_CYCLE_TIME == BEEP_DURATION + BEEP_REPEAT_INTERVAL

\* Variant of DAC_config_chan_A: the channel-select bit of channel B.
DAC_config_chan_A_asB == 32768 + 12288

DAC_config_chan_A == 12288
DAC_config_chan_B == 45056

\* int2fix15(1)
max_amplitude == int2fix15(1)
\* float2fix15(0.5)
scale_out == 16384
attack_inc == divfix(max_amplitude, int2fix15(ATTACK_TIME))
decay_inc == divfix(max_amplitude, int2fix15(DECAY_TIME))

\* (2300.0 * two32) / Fs_DDS converted to unsigned int: 246960619,
\* as the halves <<hi, lo>> of a 32-bit word.
phase_incr_main_0 == <<3768, 20971>>
phase_incr_main_1 == <<3768, 20971>>

\* sin_table[ii] = float2fix15(2047*sin((float)ii*6.283/(float)sine_table_size)),
\* indexed here from 1.
sin_table ==
  << 
     0, 1646081, 3291171, 4934278, 6574413, 8210589, 9841819, 11467121,
     13085516, 14696029, 16297690, 17889535, 19470605, 21039947, 22596616, 24139674,
     25668192, 27181250, 28677936, 30157348, 31618596, 33060799, 34483088, 35884608,
     37264513, 38621973, 39956169, 41266299, 42551573, 43811218, 45044473, 46250597,
     47428863, 48578562, 49699000, 50789503, 51849414, 52878095, 53874926, 54839307,
     55770656, 56668413, 57532038, 58361009, 59154828, 59913016, 60635117, 61320696,
     61969340, 62580658, 63154282, 63689866, 64187088, 64645649, 65065272, 65445704,
     65786717, 66088104, 66349685, 66571301, 66752820, 66894132, 66995152, 67055818,
     67076095, 67055971, 66995457, 66894589, 66753429, 66572062, 66350597, 66089166,
     65787929, 65447066, 65066782, 64647307, 64188892, 63691816, 63156375, 62582894,
     61971718, 61323214, 60637774, 59915810, 59157757, 58364072, 57535233, 56671738,
     55774109, 54842885, 53878628, 52881918, 51853357, 50793562, 49703173, 48582847,
     47433258, 46255098, 45049078, 43815923, 42556377, 41271199, 39961161, 38627054,
     37269680, 35889858, 34488419, 33066206, 31624077, 30162899, 28683554, 27186932,
     25673934, 24145472, 22602467, 21045848, 19476552, 17895525, 16303719, 14702093,
     13091611, 11473244, 9847966, 8216757, 6580598, 4940476, 3297378, 1652294,
     6214, -1639868, -3284963, -4928080, -6568228, -8204421, -9835671, -11460997,
     -13079420, -14689965, -16291662, -17883545, -19464657, -21034045, -22590764, -24133875,
     -25662451, -27175568, -28672318, -30151797, -31613115, -33055391, -34477757, -35879357,
     -37259345, -38616891, -39951177, -41261400, -42546769, -43806511, -45039868, -46246096,
     -47424468, -48574276, -49694826, -50785443, -51845471, -52874271, -53871223, -54835728,
     -55767203, -56665088, -57528842, -58357945, -59151898, -59910221, -60632460, -61318177,
     -61966961, -62578421, -63152188, -63687916, -64185284, -64643991, -65063761, -65444342,
     -65785504, -66087041, -66348772, -66570540, -66752210, -66893674, -66994846, -67055665,
     -67076095, -67056123, -66995761, -66895046, -66754038, -66572822, -66351508, -66090228,
     -65789141, -65448427, -65068291, -64648964, -64190696, -63693764, -63158468, -62585130,
     -61974096, -61325732, -60640431, -59918604, -59160686, -58367135, -57538427, -56675062,
     -55777561, -54846463, -53882330, -52885741, -51857299, -50797621, -49707346, -48587132,
     -47437652, -46259599, -45053682, -43820629, -42561181, -41276098, -39966152, -38632134,
     -37274847, -35895108, -34493749, -33071613, -31629557, -30168450, -28689172, -27192613,
     -25679676, -24151270, -22608318, -21051749, -19482499, -17901514, -16309747, -14708156,
     -13097706, -11479367, -9854114, -8222925, -6586783, -4946674, -3303585, -1658507
  >>

\* Variant of U32Add: the carry out of the low half is lost.
U32Add_nocarry(x, y) ==
    << (x[1] + y[1]) % 65536, (x[2] + y[2]) % 65536 >>

\* Unsigned 32-bit addition (wraps modulo 2^32) on <<hi, lo>> halves.
U32Add(x, y) ==
    LET lo == x[2] + y[2]
    IN  << (x[1] + y[1] + (lo \div 65536)) % 65536, lo % 65536 >>

\* Bitwise or of two 16-bit words.
RECURSIVE BitOr(_, _, _)
BitOr(x, y, n) ==
    IF n = 0 THEN 0
    ELSE (IF (x % 2 = 1) \/ (y % 2 = 1) THEN 1 ELSE 0)
         + 2 * BitOr(x \div 2, y \div 2, n - 1)

\* Variant of DDS_output: the mid-scale offset is left out.
DDS_output_nooffset(amplitude, ph) ==
    fix2int15(multfix15(multfix15(amplitude, scale_out),
                        sin_table[(ph[1] \div 256) + 1]))

\* combo.c 146-147: the scaled, offset sine sample for phase word ph.
DDS_output(amplitude, ph) ==
    fix2int15(multfix15(multfix15(amplitude, scale_out),
                        sin_table[(ph[1] \div 256) + 1])) + 2048

\* combo.c 159: the DAC word (uint16_t).
DAC_word(config, output) == BitOr(config, output % 65536, 16)

\* combo.c 162: the 16-bit word written to SPI0 reaches the two-channel DAC,
\* whose bit 15 selects the channel it loads (0: A, 1: B, combo.c 107-111)
\* and whose low 12 bits are the code.  The code channel chan holds after
\* the write, old being the code it held.
spi_write16_blocking(word, chan, old) ==
    IF (word \div 32768) % 2 = chan THEN word % 4096 ELSE old

\* combo.c 150: the attack region.
InAttack(count) == count < ATTACK_TIME

\* Variant of InDecay: >= for >.
InDecay_early(count) == count >= BEEP_DURATION - DECAY_TIME

\* combo.c 154: the decay region.
InDecay(count) == count > BEEP_DURATION - DECAY_TIME

\* combo.c 149-156: the amplitude after the ramps.
RampAmplitude(count, amplitude) ==
    IF InAttack(count) THEN amplitude + attack_inc
    ELSE IF InDecay(count) THEN amplitude - decay_inc
    ELSE amplitude

\* Variant of BeepEnds: > for ==.
BeepEnds_late(count) == count > BEEP_DURATION

\* combo.c 168: the beep is over.
BeepEnds(count) == count = BEEP_DURATION

\* combo.c 177: the silence is over.
SilenceEnds(count) == count = BEEP_REPEAT_INTERVAL

\* sleep_ms(500) of main (combo.c 718) in 25 us timer periods (combo.c 321, 726).
CORE0_DELAY_TICKS == (500 * 1000) \div 25

(***************************************************************************)
(* State.                                                                  *)
(***************************************************************************)
VARIABLES
    \* DDS, core 0 (combo.c 68, 76, 83, 96-97, 104, 127)
    phase_accum_main_0, DAC_output_0, current_amplitude_0,
    STATE_L, count_L, DAC_data_L, corenum_0,
    \* DDS, core 1 (combo.c 64, 77, 84, 99-100, 105, 128)
    phase_accum_main_1, DAC_output_1, current_amplitude_1,
    STATE_R, count_R, DAC_data_R, corenum_1,
    \* the DAC behind SPI0: the 12-bit codes its channels A and B hold
    dac_A, dac_B,
    \* whether main has added core 0's repeating timer (combo.c 726)
    timer_core_0,
    \* observers of the two callbacks: ticks seen, ticks in the current
    \* envelope period, lengths of the last completed periods
    obs_0, obs_1,
    \* shared between the cores (combo.c 131-138)
    global_counter, fr_max, FFT_count, core_1_go, core_0_go,
    \* the cooperative schedulers: the thread each core is running
    cur_0, cur_1,
    \* protothread_core_0 / protothread_core_1: position, and the value
    \* global_counter++ has loaded
    pc_core_0, gc_reg_0, pc_core_1, gc_reg_1,
    \* protothread_blink (core 1) and the LED pin
    pc_blink, LED,
    \* protothread_fft: position, the value FFT_count++ has loaded,
    \* max_fr_dex, what fr/fi hold, re-arms since the last completed wait
    pc_fft, ffc_reg, max_fr_dex, fr_fi, rearmed,
    \* the ADC and the DMA sample channel: free-running flag, BUSY flag,
    \* transfers left, write address as an offset from &sample_array[0];
    \* sample_array: how many samples of the current capture epoch it holds
    adc_running, dma_busy, dma_trans_count, dma_write_addr, sample_array,
    \* the console: the last status line printed
    console,
    \* observers: the cores whose heartbeat completed a semaphore wait, in
    \* order; the transforms completed since the last status line
    body_log, completed,
    \* observer: for each core, the heartbeat sleeps (of either core) that
    \* have elapsed since its heartbeat last entered its body, and the
    \* values this count had at its later entries
    sleep_obs,
    \* the FFT arrays (combo.c 365-366) as the data kernels see them: fr and
    \* fi over the indices 0 .. length-1 of a reduced-size transform
    fr, fi,
    \* protothread_fft's peak search: max_fr and the loop index i
    max_fr, peak_i,
    \* FFTfix's bit reversal: log2 of the transform length, the loop index
    \* m, and how many times each index has been part of a swap
    log2_n, rev_m, swapped,
    \* FFTfix's Danielson-Lanczos part: the position in its loops, the locals
    \* L, k, m, i, j, istep, wr and wi, and the passes begun so far
    dl_pc, dl_L, dl_k, dl_m, dl_i, dl_j, dl_istep, dl_wr, dl_wi, dl_passes,
    \* a fix15 macro applied on its own: the operands, the macro applied
    \* ("none" before), and its value
    fix_a, fix_b, fix_op, fix_r

ddsVars == << phase_accum_main_0, DAC_output_0, current_amplitude_0,
              STATE_L, count_L, DAC_data_L, corenum_0,
              phase_accum_main_1, DAC_output_1, current_amplitude_1,
              STATE_R, count_R, DAC_data_R, corenum_1,
              dac_A, dac_B, timer_core_0, obs_0, obs_1 >>

hbVars == << global_counter, core_1_go, core_0_go,
             pc_core_0, gc_reg_0, pc_core_1, gc_reg_1, console, body_log,
             sleep_obs >>

blinkVars == << pc_blink, LED >>

fftVars == << fr_max, pc_fft, ffc_reg, max_fr_dex, fr_fi, rearmed >>

dmaVars == << adc_running, dma_busy, dma_trans_count, dma_write_addr, sample_array >>

threadVars == << hbVars, blinkVars, fftVars, dmaVars, FFT_count, completed, cur_0, cur_1 >>

arrayVars == << fr, fi >>

peakVars == << max_fr, peak_i >>

revVars == << log2_n, rev_m, swapped >>

fixVars == << fix_a, fix_b, fix_op, fix_r >>

dlVars == << dl_pc, dl_L, dl_k, dl_m, dl_i, dl_j, dl_istep, dl_wr, dl_wi,
             dl_passes >>

kernelVars == << arrayVars, peakVars, revVars, dlVars, fixVars >>

vars == << ddsVars, threadVars, kernelVars >>

(***************************************************************************)
(* The DDS timer callbacks.                                                *)
(***************************************************************************)
\* What an observer of a callback records: n, the callbacks run so far;
\* run, the ticks spent in the current envelope period; active and silent,
\* the lengths in ticks of the last completed ACTIVE and SILENT periods
\* (0: none completed yet).
ObsInit == [n |-> 0, run |-> 0, active |-> 0, silent |-> 0]

Observe(obs, state, state_next) ==
    IF state_next = state
    THEN [obs EXCEPT !.n = @ + 1, !.run = @ + 1]
    ELSE [n      |-> obs.n + 1,
          run    |-> 0,
          active |-> IF state = 0 THEN obs.run + 1 ELSE obs.active,
          silent |-> IF state # 0 THEN obs.run + 1 ELSE obs.silent]

\* The callbacks are followed until core 0 has run MaxCycles beep cycles.
WithinCycles == obs_0.n < MaxCycles * CHIRP_CYCLE_TIME

\* combo.c 714-727: core 1 is launched first and main sleeps 500 ms before
\* it adds core 0's timer.
main_add_repeating_timer ==
    /\ ~timer_core_0
    /\ obs_1.n >= CORE0_DELAY_TICKS - MaxSkew
    /\ timer_core_0' = TRUE
    /\ UNCHANGED << phase_accum_main_0, DAC_output_0, current_amplitude_0,
                    STATE_L, count_L, DAC_data_L, corenum_0,
                    phase_accum_main_1, DAC_output_1, current_amplitude_1,
                    STATE_R, count_R, DAC_data_R, corenum_1,
                    dac_A, dac_B, obs_0, obs_1 >>
    /\ UNCHANGED << threadVars, kernelVars >>

\* combo.c 141-188
repeating_timer_callback_core_0 ==
    /\ timer_core_0
    /\ WithinCycles
    /\ obs_1.n - obs_0.n > CORE0_DELAY_TICKS - MaxSkew
    /\ IF STATE_L = 0
       THEN LET ph  == U32Add(phase_accum_main_0, phase_incr_main_0)
                out == DDS_output(current_amplitude_0, ph)
            IN  /\ phase_accum_main_0' = ph
                /\ DAC_output_0' = out
                /\ current_amplitude_0' = RampAmplitude(count_L, current_amplitude_0)
                /\ DAC_data_L' = DAC_word(DAC_config_chan_B, out)
                /\ dac_A' = spi_write16_blocking(DAC_word(DAC_config_chan_B, out), 0, dac_A)
                /\ dac_B' = spi_write16_blocking(DAC_word(DAC_config_chan_B, out), 1, dac_B)
                /\ IF BeepEnds(count_L + 1)
                   THEN STATE_L' = 1 /\ count_L' = 0
                   ELSE STATE_L' = STATE_L /\ count_L' = count_L + 1
       ELSE /\ IF SilenceEnds(count_L + 1)
               THEN /\ current_amplitude_0' = 0
                    /\ STATE_L' = 0
                    /\ count_L' = 0
               ELSE /\ count_L' = count_L + 1
                    /\ UNCHANGED << current_amplitude_0, STATE_L >>
            /\ UNCHANGED << phase_accum_main_0, DAC_output_0, DAC_data_L,
                            dac_A, dac_B >>
    /\ corenum_0' = 0
    /\ obs_0' = Observe(obs_0, STATE_L, STATE_L')
    /\ UNCHANGED << phase_accum_main_1, DAC_output_1, current_amplitude_1,
                    STATE_R, count_R, DAC_data_R, corenum_1,
                    timer_core_0, obs_1 >>
    /\ UNCHANGED << threadVars, kernelVars >>

\* combo.c 191-238
repeating_timer_callback_core_1 ==
    /\ WithinCycles
    /\ obs_1.n - obs_0.n < CORE0_DELAY_TICKS + MaxSkew
    /\ IF STATE_R = 0
       THEN LET ph  == U32Add(phase_accum_main_1, phase_incr_main_1)
                out == DDS_output(current_amplitude_1, ph)
            IN  /\ phase_accum_main_1' = ph
                /\ DAC_output_1' = out
                /\ current_amplitude_1' = RampAmplitude(count_R, current_amplitude_1)
                /\ DAC_data_R' = DAC_word(DAC_config_chan_A, out)
                /\ dac_A' = spi_write16_blocking(DAC_word(DAC_config_chan_A, out), 0, dac_A)
                /\ dac_B' = spi_write16_blocking(DAC_word(DAC_config_chan_A, out), 1, dac_B)
                /\ IF BeepEnds(count_R + 1)
                   THEN STATE_R' = 1 /\ count_R' = 0
                   ELSE STATE_R' = STATE_R /\ count_R' = count_R + 1
       ELSE /\ IF SilenceEnds(count_R + 1)
               THEN /\ current_amplitude_1' = 0
                    /\ STATE_R' = 0
                    /\ count_R' = 0
               ELSE /\ count_R' = count_R + 1
                    /\ UNCHANGED << current_amplitude_1, STATE_R >>
            /\ UNCHANGED << phase_accum_main_1, DAC_output_1, DAC_data_R,
                            dac_A, dac_B >>
    /\ corenum_1' = 1
    /\ obs_1' = Observe(obs_1, STATE_R, STATE_R')
    /\ UNCHANGED << phase_accum_main_0, DAC_output_0, current_amplitude_0,
                    STATE_L, count_L, DAC_data_L, corenum_0,
                    timer_core_0, obs_0 >>
    /\ UNCHANGED << threadVars, kernelVars >>

(***************************************************************************)
(* Bounds of the thread model.                                             *)
(***************************************************************************)
\* The heartbeats are followed for MaxBodies completed semaphore waits.
MaxBodies == 3
\* The FFT thread starts no new transform while FFT_count is MaxFFT.
MaxFFT == 2

\* The peak bins the transform of an epoch is let to report.
PeakBins == {0, 5}

(***************************************************************************)
(* The cooperative schedulers (pt_add_thread / pt_schedule_start,          *)
(* combo.c 325-329 and 730-735): each core polls its threads round robin;  *)
(* a thread runs until it yields.                                          *)
(***************************************************************************)
Threads_0 == << "core_0", "fft" >>
Threads_1 == << "core_1", "blink" >>

NextThread(threads, t) ==
    LET i == CHOOSE k \in 1..Len(threads) : threads[k] = t
    IN  threads[(i % Len(threads)) + 1]

\* The heartbeat sleeps are counted up to MaxSlept.
MaxSlept == 3

SleepObsInit == [c \in {0, 1} |-> [slept |-> 0, gaps |-> << >>]]

\* Core c's heartbeat enters its body: from its second entry on, the sleeps
\* elapsed since the entry before are recorded; the count starts again.
SleepObsEnter(obs, log, c) ==
    [obs EXCEPT ![c] =
        [slept |-> 0,
         gaps  |-> IF \E i \in 1..Len(log) : log[i] = c
                   THEN Append(obs[c].gaps, obs[c].slept)
                   ELSE obs[c].gaps]]

\* A heartbeat's sleep has elapsed.
SleepObsElapsed(obs) ==
    [c \in {0, 1} |->
        [obs[c] EXCEPT !.slept = IF @ < MaxSlept THEN @ + 1 ELSE @]]

\* PT_SEM_SAFE_WAIT can take the semaphore.
SemReady(s) == s > 0
\* PT_SEM_SAFE_WAIT's decrement and PT_SEM_SAFE_SIGNAL's increment, each
\* done under the semaphores' spin lock.
SemTake(s) == s - 1
\* a signal that counts twice
SemGive_twice(s) == s + 2
SemGive(s) == s + 1

\* The status line of printf (combo.c 271, 299); done is the observer's
\* count of the transforms completed since the previous status line.
StatusLine(core, counter, isr, maxf, ffts, done) ==
    [core |-> core, counter |-> counter, isr |-> isr,
     maxf |-> maxf, ffts |-> ffts, done |-> done]

\* (int)fr_max, with fr_max kept in units of 1/64 Hz: Fs_FFT / NUM_SAMPLES
\* is 625/64 exactly (combo.c 538, 271).
FloatToInt(f) == f \div 64

(***************************************************************************)
(* The capture hardware (combo.c 339, 363, 689-710).                       *)
(***************************************************************************)
NUM_SAMPLES == 1024

\* combo.c 691: the sample channel's destination.
dma_dst == "sample_array"

(***************************************************************************)
(* protothread_core_1 (combo.c 254-279).                                 *)
(***************************************************************************)
\* combo.c 260: PT_SEM_SAFE_WAIT(pt, &core_1_go): take the semaphore, or
\* yield to the scheduler and be polled again
core_1_wait ==
    /\ cur_1 = "core_1"
    /\ pc_core_1 = "wait"
    /\ SemReady(core_1_go) => Len(body_log) < MaxBodies
    /\ IF SemReady(core_1_go)
       THEN /\ core_1_go' = SemTake(core_1_go)
            /\ pc_core_1' = "load"
            /\ body_log' = Append(body_log, 1)
            /\ sleep_obs' = SleepObsEnter(sleep_obs, body_log, 1)
            /\ UNCHANGED cur_1
       ELSE /\ cur_1' = NextThread(Threads_1, "core_1")
            /\ UNCHANGED << core_1_go, pc_core_1, body_log, sleep_obs >>
    /\ UNCHANGED << global_counter, fr_max, FFT_count, core_0_go, cur_0,
                    pc_core_0, gc_reg_0, gc_reg_1, pc_blink, LED, pc_fft,
                    ffc_reg, max_fr_dex, fr_fi, rearmed, adc_running, dma_busy,
                    dma_trans_count, dma_write_addr, sample_array, console,
                    completed, ddsVars,
                    kernelVars >>

\* combo.c 270: global_counter++ reads the volatile
core_1_load ==
    /\ cur_1 = "core_1"
    /\ pc_core_1 = "load"
    /\ gc_reg_1' = global_counter
    /\ pc_core_1' = "store"
    /\ UNCHANGED << global_counter, fr_max, FFT_count, core_1_go, core_0_go,
                    cur_0, cur_1, pc_core_0, gc_reg_0, pc_blink, LED, pc_fft,
                    ffc_reg, max_fr_dex, fr_fi, rearmed, adc_running, dma_busy,
                    dma_trans_count, dma_write_addr, sample_array, console,
                    body_log, completed, ddsVars,
                    kernelVars, sleep_obs >>

\* Variant of core_1_store: the loaded value is written back unincremented.
core_1_store_lost ==
    /\ cur_1 = "core_1"
    /\ pc_core_1 = "store"
    /\ global_counter' = gc_reg_1
    /\ gc_reg_1' = 0
    /\ pc_core_1' = "print"
    /\ UNCHANGED << fr_max, FFT_count, core_1_go, core_0_go, cur_0, cur_1,
                    pc_core_0, gc_reg_0, pc_blink, LED, pc_fft, ffc_reg,
                    max_fr_dex, fr_fi, rearmed, adc_running, dma_busy,
                    dma_trans_count, dma_write_addr, sample_array, console,
                    body_log, completed, ddsVars,
                    kernelVars, sleep_obs >>

\* combo.c 270: global_counter++ writes the volatile
core_1_store ==
    /\ cur_1 = "core_1"
    /\ pc_core_1 = "store"
    /\ global_counter' = gc_reg_1 + 1
    /\ gc_reg_1' = 0
    /\ pc_core_1' = "print"
    /\ UNCHANGED << fr_max, FFT_count, core_1_go, core_0_go, cur_0, cur_1,
                    pc_core_0, gc_reg_0, pc_blink, LED, pc_fft, ffc_reg,
                    max_fr_dex, fr_fi, rearmed, adc_running, dma_busy,
                    dma_trans_count, dma_write_addr, sample_array, console,
                    body_log, completed, ddsVars,
                    kernelVars, sleep_obs >>

\* combo.c 271: printf("Pong: Core 1: ..."); the observer's count of
\* completed transforms starts again
core_1_print ==
    /\ cur_1 = "core_1"
    /\ pc_core_1 = "print"
    /\ console' = << StatusLine(1, global_counter, corenum_1,
                                FloatToInt(fr_max), FFT_count, completed) >>
    /\ completed' = 0
    /\ pc_core_1' = "reset"
    /\ UNCHANGED << global_counter, fr_max, FFT_count, core_1_go, core_0_go,
                    cur_0, cur_1, pc_core_0, gc_reg_0, gc_reg_1, pc_blink, LED,
                    pc_fft, ffc_reg, max_fr_dex, fr_fi, rearmed, adc_running,
                    dma_busy, dma_trans_count, dma_write_addr, sample_array,
                    body_log, ddsVars,
                    kernelVars, sleep_obs >>

\* Variant of core_1_reset: FFT_count is not reset.
core_1_reset_skipped ==
    /\ cur_1 = "core_1"
    /\ pc_core_1 = "reset"
    /\ FFT_count' = FFT_count
    /\ pc_core_1' = "yield"
    /\ UNCHANGED << global_counter, fr_max, core_1_go, core_0_go, cur_0, cur_1,
                    pc_core_0, gc_reg_0, gc_reg_1, pc_blink, LED, pc_fft,
                    ffc_reg, max_fr_dex, fr_fi, rearmed, adc_running, dma_busy,
                    dma_trans_count, dma_write_addr, sample_array, console,
                    body_log, completed, ddsVars,
                    kernelVars, sleep_obs >>

\* combo.c 272: FFT_count = 0
core_1_reset ==
    /\ cur_1 = "core_1"
    /\ pc_core_1 = "reset"
    /\ FFT_count' = 0
    /\ pc_core_1' = "yield"
    /\ UNCHANGED << global_counter, fr_max, core_1_go, core_0_go, cur_0, cur_1,
                    pc_core_0, gc_reg_0, gc_reg_1, pc_blink, LED, pc_fft,
                    ffc_reg, max_fr_dex, fr_fi, rearmed, adc_running, dma_busy,
                    dma_trans_count, dma_write_addr, sample_array, console,
                    body_log, completed, ddsVars,
                    kernelVars, sleep_obs >>

\* combo.c 273: PT_YIELD_usec(1000000) yields
\* PT_YIELD_usec without its interval: the thread yields once and goes on
core_1_yield_nosleep ==
    /\ cur_1 = "core_1"
    /\ pc_core_1 = "yield"
    /\ pc_core_1' = "signal"
    /\ cur_1' = NextThread(Threads_1, "core_1")
    /\ UNCHANGED << global_counter, fr_max, FFT_count, core_1_go, core_0_go,
                    cur_0, pc_core_0, gc_reg_0, gc_reg_1, pc_blink, LED, pc_fft,
                    ffc_reg, max_fr_dex, fr_fi, rearmed, adc_running, dma_busy,
                    dma_trans_count, dma_write_addr, sample_array, console,
                    body_log, completed, ddsVars,
                    kernelVars, sleep_obs >>

core_1_yield ==
    /\ cur_1 = "core_1"
    /\ pc_core_1 = "yield"
    /\ pc_core_1' = "sleeping"
    /\ cur_1' = NextThread(Threads_1, "core_1")
    /\ UNCHANGED << global_counter, fr_max, FFT_count, core_1_go, core_0_go,
                    cur_0, pc_core_0, gc_reg_0, gc_reg_1, pc_blink, LED, pc_fft,
                    ffc_reg, max_fr_dex, fr_fi, rearmed, adc_running, dma_busy,
                    dma_trans_count, dma_write_addr, sample_array, console,
                    body_log, completed, ddsVars,
                    kernelVars, sleep_obs >>

\* combo.c 273: polled before the second has passed, it yields again
core_1_sleep_poll ==
    /\ cur_1 = "core_1"
    /\ pc_core_1 = "sleeping"
    /\ cur_1' = NextThread(Threads_1, "core_1")
    /\ UNCHANGED << global_counter, fr_max, FFT_count, core_1_go, core_0_go,
                    cur_0, pc_core_0, gc_reg_0, pc_core_1, gc_reg_1, pc_blink,
                    LED, pc_fft, ffc_reg, max_fr_dex, fr_fi, rearmed,
                    adc_running, dma_busy, dma_trans_count, dma_write_addr,
                    sample_array, console, body_log, completed, ddsVars,
                    kernelVars, sleep_obs >>

\* combo.c 273: polled after the second has passed, it goes on
core_1_sleep_done ==
    /\ cur_1 = "core_1"
    /\ pc_core_1 = "sleeping"
    /\ pc_core_1' = "signal"
    /\ sleep_obs' = SleepObsElapsed(sleep_obs)
    /\ UNCHANGED << global_counter, fr_max, FFT_count, core_1_go, core_0_go,
                    cur_0, cur_1, pc_core_0, gc_reg_0, gc_reg_1, pc_blink, LED,
                    pc_fft, ffc_reg, max_fr_dex, fr_fi, rearmed, adc_running,
                    dma_busy, dma_trans_count, dma_write_addr, sample_array,
                    console, body_log, completed, ddsVars,
                    kernelVars >>

\* Variant of core_1_signal: core_0_go is not signalled.
core_1_signal_dropped ==
    /\ cur_1 = "core_1"
    /\ pc_core_1 = "signal"
    /\ core_0_go' = core_0_go
    /\ pc_core_1' = "wait"
    /\ UNCHANGED << global_counter, fr_max, FFT_count, core_1_go, cur_0, cur_1,
                    pc_core_0, gc_reg_0, gc_reg_1, pc_blink, LED, pc_fft,
                    ffc_reg, max_fr_dex, fr_fi, rearmed, adc_running, dma_busy,
                    dma_trans_count, dma_write_addr, sample_array, console,
                    body_log, completed, ddsVars,
                    kernelVars, sleep_obs >>

\* combo.c 275: PT_SEM_SAFE_SIGNAL(pt, &core_0_go), and back to the wait
core_1_signal ==
    /\ cur_1 = "core_1"
    /\ pc_core_1 = "signal"
    /\ core_0_go' = SemGive(core_0_go)
    /\ pc_core_1' = "wait"
    /\ UNCHANGED << global_counter, fr_max, FFT_count, core_1_go, cur_0, cur_1,
                    pc_core_0, gc_reg_0, gc_reg_1, pc_blink, LED, pc_fft,
                    ffc_reg, max_fr_dex, fr_fi, rearmed, adc_running, dma_busy,
                    dma_trans_count, dma_write_addr, sample_array, console,
                    body_log, completed, ddsVars,
                    kernelVars, sleep_obs >>

protothread_core_1 ==
    \/ core_1_wait
    \/ core_1_load
    \/ core_1_store
    \/ core_1_print
    \/ core_1_reset
    \/ core_1_yield
    \/ core_1_sleep_poll
    \/ core_1_sleep_done
    \/ core_1_signal

(***************************************************************************)
(* protothread_core_0 (combo.c 282-307).                                 *)
(***************************************************************************)
\* combo.c 288: PT_SEM_SAFE_WAIT(pt, &core_0_go): take the semaphore, or
\* yield to the scheduler and be polled again
core_0_wait ==
    /\ cur_0 = "core_0"
    /\ pc_core_0 = "wait"
    /\ SemReady(core_0_go) => Len(body_log) < MaxBodies
    /\ IF SemReady(core_0_go)
       THEN /\ core_0_go' = SemTake(core_0_go)
            /\ pc_core_0' = "load"
            /\ body_log' = Append(body_log, 0)
            /\ sleep_obs' = SleepObsEnter(sleep_obs, body_log, 0)
            /\ UNCHANGED cur_0
       ELSE /\ cur_0' = NextThread(Threads_0, "core_0")
            /\ UNCHANGED << core_0_go, pc_core_0, body_log, sleep_obs >>
    /\ UNCHANGED << global_counter, fr_max, FFT_count, core_1_go, cur_1,
                    gc_reg_0, pc_core_1, gc_reg_1, pc_blink, LED, pc_fft,
                    ffc_reg, max_fr_dex, fr_fi, rearmed, adc_running, dma_busy,
                    dma_trans_count, dma_write_addr, sample_array, console,
                    completed, ddsVars,
                    kernelVars >>

\* combo.c 298: global_counter++ reads the volatile
core_0_load ==
    /\ cur_0 = "core_0"
    /\ pc_core_0 = "load"
    /\ gc_reg_0' = global_counter
    /\ pc_core_0' = "store"
    /\ UNCHANGED << global_counter, fr_max, FFT_count, core_1_go, core_0_go,
                    cur_0, cur_1, pc_core_1, gc_reg_1, pc_blink, LED, pc_fft,
                    ffc_reg, max_fr_dex, fr_fi, rearmed, adc_running, dma_busy,
                    dma_trans_count, dma_write_addr, sample_array, console,
                    body_log, completed, ddsVars,
                    kernelVars, sleep_obs >>

\* combo.c 298: global_counter++ writes the volatile
core_0_store ==
    /\ cur_0 = "core_0"
    /\ pc_core_0 = "store"
    /\ global_counter' = gc_reg_0 + 1
    /\ gc_reg_0' = 0
    /\ pc_core_0' = "print"
    /\ UNCHANGED << fr_max, FFT_count, core_1_go, core_0_go, cur_0, cur_1,
                    pc_core_1, gc_reg_1, pc_blink, LED, pc_fft, ffc_reg,
                    max_fr_dex, fr_fi, rearmed, adc_running, dma_busy,
                    dma_trans_count, dma_write_addr, sample_array, console,
                    body_log, completed, ddsVars,
                    kernelVars, sleep_obs >>

\* combo.c 299: printf("Ping: Core 0: ..."); the observer's count of
\* completed transforms starts again
core_0_print ==
    /\ cur_0 = "core_0"
    /\ pc_core_0 = "print"
    /\ console' = << StatusLine(0, global_counter, corenum_0,
                                FloatToInt(fr_max), FFT_count, completed) >>
    /\ completed' = 0
    /\ pc_core_0' = "reset"
    /\ UNCHANGED << global_counter, fr_max, FFT_count, core_1_go, core_0_go,
                    cur_0, cur_1, gc_reg_0, pc_core_1, gc_reg_1, pc_blink, LED,
                    pc_fft, ffc_reg, max_fr_dex, fr_fi, rearmed, adc_running,
                    dma_busy, dma_trans_count, dma_write_addr, sample_array,
                    body_log, ddsVars,
                    kernelVars, sleep_obs >>

\* combo.c 300: FFT_count = 0
core_0_reset ==
    /\ cur_0 = "core_0"
    /\ pc_core_0 = "reset"
    /\ FFT_count' = 0
    /\ pc_core_0' = "yield"
    /\ UNCHANGED << global_counter, fr_max, core_1_go, core_0_go, cur_0, cur_1,
                    gc_reg_0, pc_core_1, gc_reg_1, pc_blink, LED, pc_fft,
                    ffc_reg, max_fr_dex, fr_fi, rearmed, adc_running, dma_busy,
                    dma_trans_count, dma_write_addr, sample_array, console,
                    body_log, completed, ddsVars,
                    kernelVars, sleep_obs >>

\* Variant of core_0_yield: core_1_go is signalled before the sleep instead
\* of after it.
core_0_yield_signals ==
    /\ cur_0 = "core_0"
    /\ pc_core_0 = "yield"
    /\ core_1_go' = SemGive(core_1_go)
    /\ pc_core_0' = "sleeping"
    /\ cur_0' = NextThread(Threads_0, "core_0")
    /\ UNCHANGED << global_counter, fr_max, FFT_count, core_0_go, cur_1,
                    gc_reg_0, pc_core_1, gc_reg_1, pc_blink, LED, pc_fft,
                    ffc_reg, max_fr_dex, fr_fi, rearmed, adc_running, dma_busy,
                    dma_trans_count, dma_write_addr, sample_array, console,
                    body_log, completed, ddsVars,
                    kernelVars, sleep_obs >>

\* combo.c 301: PT_YIELD_usec(1000000) yields
core_0_yield ==
    /\ cur_0 = "core_0"
    /\ pc_core_0 = "yield"
    /\ pc_core_0' = "sleeping"
    /\ cur_0' = NextThread(Threads_0, "core_0")
    /\ UNCHANGED << global_counter, fr_max, FFT_count, core_1_go, core_0_go,
                    cur_1, gc_reg_0, pc_core_1, gc_reg_1, pc_blink, LED, pc_fft,
                    ffc_reg, max_fr_dex, fr_fi, rearmed, adc_running, dma_busy,
                    dma_trans_count, dma_write_addr, sample_array, console,
                    body_log, completed, ddsVars,
                    kernelVars, sleep_obs >>

\* combo.c 301: polled before the second has passed, it yields again
core_0_sleep_poll ==
    /\ cur_0 = "core_0"
    /\ pc_core_0 = "sleeping"
    /\ cur_0' = NextThread(Threads_0, "core_0")
    /\ UNCHANGED << global_counter, fr_max, FFT_count, core_1_go, core_0_go,
                    cur_1, pc_core_0, gc_reg_0, pc_core_1, gc_reg_1, pc_blink,
                    LED, pc_fft, ffc_reg, max_fr_dex, fr_fi, rearmed,
                    adc_running, dma_busy, dma_trans_count, dma_write_addr,
                    sample_array, console, body_log, completed, ddsVars,
                    kernelVars, sleep_obs >>

\* combo.c 301: polled after the second has passed, it goes on
core_0_sleep_done ==
    /\ cur_0 = "core_0"
    /\ pc_core_0 = "sleeping"
    /\ pc_core_0' = "signal"
    /\ sleep_obs' = SleepObsElapsed(sleep_obs)
    /\ UNCHANGED << global_counter, fr_max, FFT_count, core_1_go, core_0_go,
                    cur_0, cur_1, gc_reg_0, pc_core_1, gc_reg_1, pc_blink, LED,
                    pc_fft, ffc_reg, max_fr_dex, fr_fi, rearmed, adc_running,
                    dma_busy, dma_trans_count, dma_write_addr, sample_array,
                    console, body_log, completed, ddsVars,
                    kernelVars >>

\* combo.c 303: PT_SEM_SAFE_SIGNAL(pt, &core_1_go), and back to the wait
core_0_signal ==
    /\ cur_0 = "core_0"
    /\ pc_core_0 = "signal"
    /\ core_1_go' = SemGive(core_1_go)
    /\ pc_core_0' = "wait"
    /\ UNCHANGED << global_counter, fr_max, FFT_count, core_0_go, cur_0, cur_1,
                    gc_reg_0, pc_core_1, gc_reg_1, pc_blink, LED, pc_fft,
                    ffc_reg, max_fr_dex, fr_fi, rearmed, adc_running, dma_busy,
                    dma_trans_count, dma_write_addr, sample_array, console,
                    body_log, completed, ddsVars,
                    kernelVars, sleep_obs >>

protothread_core_0 ==
    \/ core_0_wait
    \/ core_0_load
    \/ core_0_store
    \/ core_0_print
    \/ core_0_reset
    \/ core_0_yield
    \/ core_0_sleep_poll
    \/ core_0_sleep_done
    \/ core_0_signal

(***************************************************************************)
(* protothread_blink, added to core 1 (combo.c 241-251, 326).              *)
(***************************************************************************)
\* combo.c 247-248: toggle the LED, then PT_YIELD_usec(blink_rate) yields
blink_toggle ==
    /\ cur_1 = "blink"
    /\ pc_blink = "toggle"
    /\ LED' = ~LED
    /\ pc_blink' = "sleeping"
    /\ cur_1' = NextThread(Threads_1, "blink")
    /\ UNCHANGED << global_counter, fr_max, FFT_count, core_1_go, core_0_go,
                    cur_0, pc_core_0, gc_reg_0, pc_core_1, gc_reg_1, pc_fft,
                    ffc_reg, max_fr_dex, fr_fi, rearmed, adc_running, dma_busy,
                    dma_trans_count, dma_write_addr, sample_array, console,
                    body_log, completed, ddsVars,
                    kernelVars, sleep_obs >>

\* combo.c 248: polled before blink_rate has passed
blink_sleep_poll ==
    /\ cur_1 = "blink"
    /\ pc_blink = "sleeping"
    /\ cur_1' = NextThread(Threads_1, "blink")
    /\ UNCHANGED << global_counter, fr_max, FFT_count, core_1_go, core_0_go,
                    cur_0, pc_core_0, gc_reg_0, pc_core_1, gc_reg_1, pc_blink,
                    LED, pc_fft, ffc_reg, max_fr_dex, fr_fi, rearmed,
                    adc_running, dma_busy, dma_trans_count, dma_write_addr,
                    sample_array, console, body_log, completed, ddsVars,
                    kernelVars, sleep_obs >>

\* combo.c 248: polled after blink_rate has passed
blink_sleep_done ==
    /\ cur_1 = "blink"
    /\ pc_blink = "sleeping"
    /\ pc_blink' = "toggle"
    /\ UNCHANGED << global_counter, fr_max, FFT_count, core_1_go, core_0_go,
                    cur_0, cur_1, pc_core_0, gc_reg_0, pc_core_1, gc_reg_1, LED,
                    pc_fft, ffc_reg, max_fr_dex, fr_fi, rearmed, adc_running,
                    dma_busy, dma_trans_count, dma_write_addr, sample_array,
                    console, body_log, completed, ddsVars,
                    kernelVars, sleep_obs >>

protothread_blink ==
    \/ blink_toggle
    \/ blink_sleep_poll
    \/ blink_sleep_done

(***************************************************************************)
(* The DMA sample channel and its control channel.                         *)
(***************************************************************************)
\* Variant of DmaTrigger: the write address is never rewritten (the sample
\* channel is re-triggered without the control channel).
DmaTrigger_keepaddr(restart) ==
    /\ UNCHANGED dma_write_addr
    /\ IF dma_busy
       THEN UNCHANGED << dma_busy, dma_trans_count, sample_array >>
       ELSE /\ dma_busy' = TRUE
            /\ dma_trans_count' = NUM_SAMPLES
            /\ sample_array' = 0

\* A trigger of the sample channel (combo.c 470 directly, 516 through the
\* control channel's chain): an idle channel reloads its transfer count
\* and runs; a busy one ignores the trigger.
\* restart: the control channel has first rewritten the write address
\* with sample_address_pointer (combo.c 374, 703-710).
DmaTrigger(restart) ==
    /\ dma_write_addr' = IF restart THEN 0 ELSE dma_write_addr
    /\ IF dma_busy
       THEN UNCHANGED << dma_busy, dma_trans_count, sample_array >>
       ELSE /\ dma_busy' = TRUE
            /\ dma_trans_count' = NUM_SAMPLES
            /\ sample_array' = 0

\* The sample channel moves k samples from the ADC FIFO to its write
\* address (8-bit transfers, incrementing write, paced by the ADC).
DmaMove(k) ==
    /\ adc_running
    /\ dma_busy
    /\ k \in 1..dma_trans_count
    /\ dma_trans_count' = dma_trans_count - k
    /\ dma_write_addr' = dma_write_addr + k
    /\ dma_busy' = (dma_trans_count - k > 0)
    /\ IF dma_dst = "sample_array" /\ dma_write_addr + k <= NUM_SAMPLES
       THEN /\ sample_array' = sample_array + k
            /\ UNCHANGED fr_fi
       ELSE /\ fr_fi' = "dma"
            /\ UNCHANGED sample_array

\* One sample arrives and is stored.
dma_transfer ==
    /\ DmaMove(1)
    /\ UNCHANGED adc_running
    /\ UNCHANGED << global_counter, fr_max, FFT_count, core_1_go, core_0_go,
                    cur_0, cur_1, pc_core_0, gc_reg_0, pc_core_1, gc_reg_1,
                    pc_blink, LED, pc_fft, ffc_reg, max_fr_dex, rearmed,
                    console, body_log, completed, ddsVars,
                    kernelVars, sleep_obs >>

\* The rest of the epoch's samples arrive and are stored.
dma_epoch ==
    /\ DmaMove(dma_trans_count)
    /\ UNCHANGED adc_running
    /\ UNCHANGED << global_counter, fr_max, FFT_count, core_1_go, core_0_go,
                    cur_0, cur_1, pc_core_0, gc_reg_0, pc_core_1, gc_reg_1,
                    pc_blink, LED, pc_fft, ffc_reg, max_fr_dex, rearmed,
                    console, body_log, completed, ddsVars,
                    kernelVars, sleep_obs >>

(***************************************************************************)
(* protothread_fft, core 0 (combo.c 464-557).                              *)
(***************************************************************************)
\* combo.c 468-495: start the sample channel and the ADC
fft_start ==
    /\ cur_0 = "fft"
    /\ pc_fft = "start"
    /\ DmaTrigger(FALSE)
    /\ adc_running' = TRUE
    /\ pc_fft' = "wait"
    /\ UNCHANGED << global_counter, fr_max, FFT_count, core_1_go, core_0_go,
                    cur_0, cur_1, pc_core_0, gc_reg_0, pc_core_1, gc_reg_1,
                    pc_blink, LED, ffc_reg, max_fr_dex, fr_fi, rearmed, console,
                    body_log, completed, ddsVars,
                    kernelVars, sleep_obs >>

\* Variant of fft_wait: the task goes on without waiting for the channel.
fft_wait_nowait ==
    /\ cur_0 = "fft"
    /\ pc_fft = "wait"
    /\ rearmed' = 0
    /\ pc_fft' = "copy"
    /\ UNCHANGED << global_counter, fr_max, FFT_count, core_1_go, core_0_go,
                    cur_0, cur_1, pc_core_0, gc_reg_0, pc_core_1, gc_reg_1,
                    pc_blink, LED, ffc_reg, max_fr_dex, fr_fi, adc_running,
                    dma_busy, dma_trans_count, dma_write_addr, sample_array,
                    console, body_log, completed, ddsVars,
                    kernelVars, sleep_obs >>

\* Variant of fft_wait: a yield-until-ready instead of the blocking spin.
fft_wait_yielding ==
    /\ cur_0 = "fft"
    /\ pc_fft = "wait"
    /\ IF ~dma_busy
       THEN /\ rearmed' = 0
            /\ pc_fft' = "copy"
            /\ UNCHANGED cur_0
       ELSE /\ cur_0' = NextThread(Threads_0, "fft")
            /\ UNCHANGED << rearmed, pc_fft >>
    /\ UNCHANGED << global_counter, fr_max, FFT_count, core_1_go, core_0_go,
                    cur_1, pc_core_0, gc_reg_0, pc_core_1, gc_reg_1, pc_blink,
                    LED, ffc_reg, max_fr_dex, fr_fi, adc_running, dma_busy,
                    dma_trans_count, dma_write_addr, sample_array, console,
                    body_log, completed, ddsVars,
                    kernelVars, sleep_obs >>

\* combo.c 503: dma_channel_wait_for_finish_blocking(sample_chan) spins,
\* without yielding, until the channel is not busy
fft_wait ==
    /\ cur_0 = "fft"
    /\ pc_fft = "wait"
    /\ ~dma_busy
    /\ rearmed' = 0
    /\ pc_fft' = "copy"
    /\ UNCHANGED << global_counter, fr_max, FFT_count, core_1_go, core_0_go,
                    cur_0, cur_1, pc_core_0, gc_reg_0, pc_core_1, gc_reg_1,
                    pc_blink, LED, ffc_reg, max_fr_dex, fr_fi, adc_running,
                    dma_busy, dma_trans_count, dma_write_addr, sample_array,
                    console, body_log, completed, ddsVars,
                    kernelVars, sleep_obs >>

\* combo.c 506-513: copy and window sample_array into fr, zero fi
fft_copy ==
    /\ cur_0 = "fft"
    /\ pc_fft = "copy"
    /\ fr_fi' = IF sample_array = NUM_SAMPLES /\ ~dma_busy
                THEN "windowed" ELSE "torn"
    /\ max_fr_dex' = 0
    /\ pc_fft' = "rearm"
    /\ UNCHANGED << global_counter, fr_max, FFT_count, core_1_go, core_0_go,
                    cur_0, cur_1, pc_core_0, gc_reg_0, pc_core_1, gc_reg_1,
                    pc_blink, LED, ffc_reg, rearmed, adc_running, dma_busy,
                    dma_trans_count, dma_write_addr, sample_array, console,
                    body_log, completed, ddsVars,
                    kernelVars, sleep_obs >>

\* combo.c 516: dma_channel_start(control_chan)
fft_rearm ==
    /\ cur_0 = "fft"
    /\ pc_fft = "rearm"
    /\ DmaTrigger(TRUE)
    /\ rearmed' = rearmed + 1
    /\ pc_fft' = "fft"
    /\ UNCHANGED << global_counter, fr_max, FFT_count, core_1_go, core_0_go,
                    cur_0, cur_1, pc_core_0, gc_reg_0, pc_core_1, gc_reg_1,
                    pc_blink, LED, ffc_reg, max_fr_dex, fr_fi, adc_running,
                    console, body_log, completed, ddsVars,
                    kernelVars, sleep_obs >>

\* combo.c 519-520: FFTfix(fr, fi); FFT_count++ reads the volatile
fft_FFTfix ==
    /\ cur_0 = "fft"
    /\ pc_fft = "fft"
    /\ fr_fi' = IF fr_fi = "windowed" THEN "spectrum" ELSE "garbage"
    /\ ffc_reg' = FFT_count
    /\ pc_fft' = "count"
    /\ UNCHANGED << global_counter, fr_max, FFT_count, core_1_go, core_0_go,
                    cur_0, cur_1, pc_core_0, gc_reg_0, pc_core_1, gc_reg_1,
                    pc_blink, LED, max_fr_dex, rearmed, adc_running, dma_busy,
                    dma_trans_count, dma_write_addr, sample_array, console,
                    body_log, completed, ddsVars,
                    kernelVars, sleep_obs >>

\* combo.c 520: FFT_count++ writes the volatile; the observer counts the
\* transform
fft_count ==
    /\ cur_0 = "fft"
    /\ pc_fft = "count"
    /\ FFT_count' = ffc_reg + 1
    /\ ffc_reg' = 0
    /\ completed' = completed + 1
    /\ pc_fft' = "peak"
    /\ UNCHANGED << global_counter, fr_max, core_1_go, core_0_go, cur_0, cur_1,
                    pc_core_0, gc_reg_0, pc_core_1, gc_reg_1, pc_blink, LED,
                    max_fr_dex, fr_fi, rearmed, adc_running, dma_busy,
                    dma_trans_count, dma_write_addr, sample_array, console,
                    body_log, ddsVars,
                    kernelVars, sleep_obs >>

\* combo.c 523-553: magnitudes, peak bin, fr_max, display
fft_peak ==
    /\ cur_0 = "fft"
    /\ pc_fft = "peak"
    /\ \E dex \in PeakBins :
          /\ max_fr_dex' = dex
          /\ fr_max' = dex * 625
    /\ fr_fi' = IF fr_fi = "spectrum" THEN "magnitude" ELSE "garbage"
    /\ pc_fft' = "yield"
    /\ UNCHANGED << global_counter, FFT_count, core_1_go, core_0_go, cur_0,
                    cur_1, pc_core_0, gc_reg_0, pc_core_1, gc_reg_1, pc_blink,
                    LED, ffc_reg, rearmed, adc_running, dma_busy,
                    dma_trans_count, dma_write_addr, sample_array, console,
                    body_log, completed, ddsVars,
                    kernelVars, sleep_obs >>

\* combo.c 554: PT_YIELD_usec(10) yields
fft_yield ==
    /\ cur_0 = "fft"
    /\ pc_fft = "yield"
    /\ pc_fft' = "sleeping"
    /\ cur_0' = NextThread(Threads_0, "fft")
    /\ UNCHANGED << global_counter, fr_max, FFT_count, core_1_go, core_0_go,
                    cur_1, pc_core_0, gc_reg_0, pc_core_1, gc_reg_1, pc_blink,
                    LED, ffc_reg, max_fr_dex, fr_fi, rearmed, adc_running,
                    dma_busy, dma_trans_count, dma_write_addr, sample_array,
                    console, body_log, completed, ddsVars,
                    kernelVars, sleep_obs >>

\* combo.c 554: polled before the 10 us have passed
fft_sleep_poll ==
    /\ cur_0 = "fft"
    /\ pc_fft = "sleeping"
    /\ cur_0' = NextThread(Threads_0, "fft")
    /\ UNCHANGED << global_counter, fr_max, FFT_count, core_1_go, core_0_go,
                    cur_1, pc_core_0, gc_reg_0, pc_core_1, gc_reg_1, pc_blink,
                    LED, pc_fft, ffc_reg, max_fr_dex, fr_fi, rearmed,
                    adc_running, dma_busy, dma_trans_count, dma_write_addr,
                    sample_array, console, body_log, completed, ddsVars,
                    kernelVars, sleep_obs >>

\* combo.c 554, 500: polled after the 10 us have passed, it loops
fft_sleep_done ==
    /\ cur_0 = "fft"
    /\ pc_fft = "sleeping"
    /\ FFT_count < MaxFFT
    /\ pc_fft' = "wait"
    /\ UNCHANGED << global_counter, fr_max, FFT_count, core_1_go, core_0_go,
                    cur_0, cur_1, pc_core_0, gc_reg_0, pc_core_1, gc_reg_1,
                    pc_blink, LED, ffc_reg, max_fr_dex, fr_fi, rearmed,
                    adc_running, dma_busy, dma_trans_count, dma_write_addr,
                    sample_array, console, body_log, completed, ddsVars,
                    kernelVars, sleep_obs >>

protothread_fft ==
    \/ fft_start
    \/ fft_wait
    \/ fft_copy
    \/ fft_rearm
    \/ fft_FFTfix
    \/ fft_count
    \/ fft_peak
    \/ fft_yield
    \/ fft_sleep_poll
    \/ fft_sleep_done

(***************************************************************************)
(* Initial state: the globals as initialised (combo.c 64-138, 352-374) and *)
(* main's set-up done (combo.c 562-715), no thread yet run.                *)
(***************************************************************************)
InitDDS ==
    /\ phase_accum_main_0 = << 0, 0 >>
    /\ phase_accum_main_1 = << 0, 0 >>
    /\ DAC_output_0 = 0
    /\ DAC_output_1 = 0
    /\ current_amplitude_0 = 0
    /\ current_amplitude_1 = 0
    /\ STATE_L = 0
    /\ count_L = 0
    /\ STATE_R = 0
    /\ count_R = 0
    /\ DAC_data_L = 0
    /\ DAC_data_R = 0
    /\ dac_A = 0
    /\ dac_B = 0
    /\ corenum_0 = 0
    /\ corenum_1 = 0
    /\ timer_core_0 = FALSE
    /\ obs_0 = ObsInit
    /\ obs_1 = ObsInit

\* Variant of InitSemaphores: the initial counts exchanged.
InitSemaphores_swapped ==
    /\ core_0_go = 0
    /\ core_1_go = 1

\* combo.c 596-598: PT_SEM_SAFE_INIT(&core_0_go, 1), PT_SEM_SAFE_INIT(&core_1_go, 0)
InitSemaphores ==
    /\ core_0_go = 1
    /\ core_1_go = 0

\* combo.c 689-710: both channels configured, neither started
InitDMA ==
    /\ adc_running = FALSE
    /\ dma_busy = FALSE
    /\ dma_trans_count = NUM_SAMPLES
    /\ dma_write_addr = 0
    /\ sample_array = 0

InitThreads ==
    /\ global_counter = 0
    /\ fr_max = 0
    /\ FFT_count = 0
    /\ InitSemaphores
    /\ cur_0 = Threads_0[1]
    /\ cur_1 = Threads_1[1]
    /\ pc_core_0 = "wait"
    /\ gc_reg_0 = 0
    /\ pc_core_1 = "wait"
    /\ gc_reg_1 = 0
    /\ pc_blink = "toggle"
    /\ LED = FALSE
    /\ pc_fft = "start"
    /\ ffc_reg = 0
    /\ max_fr_dex = 0
    /\ fr_fi = "zero"
    /\ rearmed = 0
    /\ InitDMA
    /\ console = << >>
    /\ body_log = << >>
    /\ sleep_obs = SleepObsInit
    /\ completed = 0

\* The data kernels hold no data until a kernel specification supplies it.
\* The Danielson-Lanczos part is not running.
UnusedDL ==
    /\ dl_pc = "unused"
    /\ dl_L = 0
    /\ dl_k = 0
    /\ dl_m = 0
    /\ dl_i = 0
    /\ dl_j = 0
    /\ dl_istep = 0
    /\ dl_wr = 0
    /\ dl_wi = 0
    /\ dl_passes = 0

InitKernel ==
    /\ fr = << >>
    /\ fi = << >>
    /\ max_fr = 0
    /\ peak_i = 0
    /\ log2_n = 0
    /\ rev_m = 0
    /\ swapped = << >>
    /\ UnusedDL
    /\ fix_a = 0
    /\ fix_b = 0
    /\ fix_op = "none"
    /\ fix_r = 0

Init == InitDDS /\ InitThreads /\ InitKernel

(***************************************************************************)
(* The specifications.                                                     *)
(***************************************************************************)
\* The cooperative threads of both cores; the DMA engine moves whole epochs.
Next ==
    \/ protothread_core_0
    \/ protothread_fft
    \/ protothread_core_1
    \/ protothread_blink
    \/ dma_epoch

Spec == Init /\ [][Next]_vars

\* Core 0's threads and the DMA engine, sample by sample.
NextCapture ==
    \/ protothread_core_0
    \/ protothread_fft
    \/ dma_transfer

SpecCapture == Init /\ [][NextCapture]_vars

\* The two timer callbacks.
NextDDS ==
    \/ main_add_repeating_timer
    \/ repeating_timer_callback_core_0
    \/ repeating_timer_callback_core_1

SpecDDS == Init /\ [][NextDDS]_vars

(***************************************************************************)
(* The run without end.  The heartbeats' loops (combo.c 258, 286) never    *)
(* leave; to follow them for ever in a finite state space the observers    *)
(* body_log and console are left alone and global_counter is kept modulo   *)
(* MaxCounter.                                                             *)
(***************************************************************************)
MaxCounter == 2

\* combo.c 260: PT_SEM_SAFE_WAIT(pt, &core_1_go), the body not logged
core_1_wait_unlogged ==
    /\ cur_1 = "core_1"
    /\ pc_core_1 = "wait"
    /\ IF SemReady(core_1_go)
       THEN /\ core_1_go' = SemTake(core_1_go)
            /\ pc_core_1' = "load"
            /\ UNCHANGED cur_1
       ELSE /\ cur_1' = NextThread(Threads_1, "core_1")
            /\ UNCHANGED << core_1_go, pc_core_1 >>
    /\ UNCHANGED << global_counter, fr_max, FFT_count, core_0_go, cur_0,
                    pc_core_0, gc_reg_0, gc_reg_1, pc_blink, LED, pc_fft,
                    ffc_reg, max_fr_dex, fr_fi, rearmed, adc_running, dma_busy,
                    dma_trans_count, dma_write_addr, sample_array, console,
                    completed, body_log, ddsVars,
                    kernelVars, sleep_obs >>

\* combo.c 270: global_counter++ writes the volatile, modulo MaxCounter
core_1_store_wrapping ==
    /\ cur_1 = "core_1"
    /\ pc_core_1 = "store"
    /\ global_counter' = (gc_reg_1 + 1) % MaxCounter
    /\ gc_reg_1' = 0
    /\ pc_core_1' = "print"
    /\ UNCHANGED << fr_max, FFT_count, core_1_go, core_0_go, cur_0, cur_1,
                    pc_core_0, gc_reg_0, pc_blink, LED, pc_fft, ffc_reg,
                    max_fr_dex, fr_fi, rearmed, adc_running, dma_busy,
                    dma_trans_count, dma_write_addr, sample_array, console,
                    body_log, completed, ddsVars,
                    kernelVars, sleep_obs >>

\* combo.c 271: printf, the line not kept
core_1_print_unrecorded ==
    /\ cur_1 = "core_1"
    /\ pc_core_1 = "print"
    /\ completed' = 0
    /\ pc_core_1' = "reset"
    /\ UNCHANGED << global_counter, fr_max, FFT_count, core_1_go, core_0_go,
                    cur_0, cur_1, pc_core_0, gc_reg_0, gc_reg_1, pc_blink, LED,
                    pc_fft, ffc_reg, max_fr_dex, fr_fi, rearmed, adc_running,
                    dma_busy, dma_trans_count, dma_write_addr, sample_array,
                    body_log, console, ddsVars,
                    kernelVars, sleep_obs >>

protothread_core_1_forever ==
    \/ core_1_wait_unlogged
    \/ core_1_load
    \/ core_1_store_wrapping
    \/ core_1_print_unrecorded
    \/ core_1_reset
    \/ core_1_yield
    \/ core_1_sleep_poll
    \/ core_1_sleep_done
    \/ core_1_signal

\* combo.c 288: PT_SEM_SAFE_WAIT(pt, &core_0_go), the body not logged
core_0_wait_unlogged ==
    /\ cur_0 = "core_0"
    /\ pc_core_0 = "wait"
    /\ IF SemReady(core_0_go)
       THEN /\ core_0_go' = SemTake(core_0_go)
            /\ pc_core_0' = "load"
            /\ UNCHANGED cur_0
       ELSE /\ cur_0' = NextThread(Threads_0, "core_0")
            /\ UNCHANGED << core_0_go, pc_core_0 >>
    /\ UNCHANGED << global_counter, fr_max, FFT_count, core_1_go, cur_1,
                    gc_reg_0, pc_core_1, gc_reg_1, pc_blink, LED, pc_fft,
                    ffc_reg, max_fr_dex, fr_fi, rearmed, adc_running, dma_busy,
                    dma_trans_count, dma_write_addr, sample_array, console,
                    completed, body_log, ddsVars,
                    kernelVars, sleep_obs >>

\* combo.c 298: global_counter++ writes the volatile, modulo MaxCounter
core_0_store_wrapping ==
    /\ cur_0 = "core_0"
    /\ pc_core_0 = "store"
    /\ global_counter' = (gc_reg_0 + 1) % MaxCounter
    /\ gc_reg_0' = 0
    /\ pc_core_0' = "print"
    /\ UNCHANGED << fr_max, FFT_count, core_1_go, core_0_go, cur_0, cur_1,
                    pc_core_1, gc_reg_1, pc_blink, LED, pc_fft, ffc_reg,
                    max_fr_dex, fr_fi, rearmed, adc_running, dma_busy,
                    dma_trans_count, dma_write_addr, sample_array, console,
                    body_log, completed, ddsVars,
                    kernelVars, sleep_obs >>

\* combo.c 299: printf, the line not kept
core_0_print_unrecorded ==
    /\ cur_0 = "core_0"
    /\ pc_core_0 = "print"
    /\ completed' = 0
    /\ pc_core_0' = "reset"
    /\ UNCHANGED << global_counter, fr_max, FFT_count, core_1_go, core_0_go,
                    cur_0, cur_1, gc_reg_0, pc_core_1, gc_reg_1, pc_blink, LED,
                    pc_fft, ffc_reg, max_fr_dex, fr_fi, rearmed, adc_running,
                    dma_busy, dma_trans_count, dma_write_addr, sample_array,
                    body_log, console, ddsVars,
                    kernelVars, sleep_obs >>

protothread_core_0_forever ==
    \/ core_0_wait_unlogged
    \/ core_0_load
    \/ core_0_store_wrapping
    \/ core_0_print_unrecorded
    \/ core_0_reset
    \/ core_0_yield
    \/ core_0_sleep_poll
    \/ core_0_sleep_done
    \/ core_0_signal

NextForever ==
    \/ protothread_core_0_forever
    \/ protothread_fft
    \/ protothread_core_1_forever
    \/ protothread_blink
    \/ dma_epoch

\* Each core's scheduler keeps running the thread whose turn it is
\* (combo.c 329, 735); every timed yield is polled, in the end, after its
\* time has passed (combo.c 248, 273, 301, 554); the DMA channel, paced by
\* the free-running ADC, completes the epoch it was started for.
Fairness ==
    /\ WF_vars(protothread_core_0_forever \/ protothread_fft)
    /\ WF_vars(protothread_core_1_forever \/ protothread_blink)
    /\ SF_vars(core_0_sleep_done)
    /\ SF_vars(core_1_sleep_done)
    /\ SF_vars(fft_sleep_done)
    /\ SF_vars(blink_sleep_done)
    /\ WF_vars(dma_epoch)

SpecForever == Init /\ [][NextForever]_vars /\ Fairness

(***************************************************************************)
(* The peak search of protothread_fft (combo.c 511-539) on its own, over   *)
(* spectra of MaxBins bins.                                                *)
(***************************************************************************)
\* No macro is applied on its own.
UnusedFix ==
    /\ fix_a = 0
    /\ fix_b = 0
    /\ fix_op = "none"
    /\ fix_r = 0

\* The bit reversal is not running.
UnusedRev ==
    /\ log2_n = 0
    /\ rev_m = 0
    /\ swapped = << >>

\* The model's NUM_SAMPLES>>1: the number of bins the search runs over.
MaxBins == 7

\* The real and imaginary parts a bin of the spectrum is drawn from.
FrVals == {-65536, 0}
FiVals == {0, 81920}

\* float2fix15(0.4)
zero_point_4 == 13107

\* abs() of stdlib, for arguments above INT_MIN
abs(x) == IF x < 0 THEN -x ELSE x

\* combo.c 356-357
max(a, b) == IF a > b THEN a ELSE b
min(a, b) == IF a < b THEN a ELSE b

\* combo.c 525-529: alpha max plus beta min
Magnitude(re, im) ==
    max(abs(re), abs(im)) + multfix15(min(abs(re), abs(im)), zero_point_4)

\* Variant of IsNewPeak: bin 4 is not excluded.
IsNewPeak_from4(mag, maxv, i) == mag > maxv /\ i > 3

\* combo.c 532: the bin becomes the maximum
IsNewPeak(mag, maxv, i) == mag > maxv /\ i > 4

\* combo.c 523-536: one iteration of the magnitude loop
peak_step ==
    /\ pc_fft = "peak"
    /\ peak_i < MaxBins
    /\ LET mag == Magnitude(fr[peak_i], fi[peak_i])
       IN  /\ fr' = [fr EXCEPT ![peak_i] = mag]
           /\ fi' = [fi EXCEPT ![peak_i] = abs(fi[peak_i])]
           /\ IF IsNewPeak(mag, max_fr, peak_i)
              THEN max_fr' = mag /\ max_fr_dex' = peak_i
              ELSE UNCHANGED << max_fr, max_fr_dex >>
    /\ peak_i' = peak_i + 1
    /\ UNCHANGED << hbVars, blinkVars, dmaVars, FFT_count, completed, cur_0,
                    cur_1, fr_max, pc_fft, ffc_reg, fr_fi, rearmed, ddsVars,
                    revVars, dlVars, fixVars >>

\* combo.c 537-554: the loop is over; the peak frequency is published
peak_publish ==
    /\ pc_fft = "peak"
    /\ peak_i = MaxBins
    /\ fr_max' = max_fr_dex * 625
    /\ pc_fft' = "yield"
    /\ UNCHANGED << hbVars, blinkVars, dmaVars, FFT_count, completed, cur_0,
                    cur_1, ffc_reg, max_fr_dex, fr_fi, rearmed, ddsVars,
                    kernelVars, sleep_obs >>

\* protothread_fft is at the magnitude loop with a spectrum in fr, fi;
\* max_fr and max_fr_dex have been zeroed (combo.c 512-513).
InitPeak ==
    /\ InitDDS
    /\ global_counter = 0
    /\ fr_max = 0
    /\ FFT_count = 1
    /\ InitSemaphores
    /\ cur_0 = "fft"
    /\ cur_1 = Threads_1[1]
    /\ pc_core_0 = "wait"
    /\ gc_reg_0 = 0
    /\ pc_core_1 = "wait"
    /\ gc_reg_1 = 0
    /\ pc_blink = "toggle"
    /\ LED = FALSE
    /\ pc_fft = "peak"
    /\ ffc_reg = 0
    /\ max_fr_dex = 0
    /\ fr_fi = "spectrum"
    /\ rearmed = 1
    /\ adc_running = TRUE
    /\ dma_busy = TRUE
    /\ dma_trans_count = NUM_SAMPLES
    /\ dma_write_addr = 0
    /\ sample_array = 0
    /\ console = << >>
    /\ body_log = << >>
    /\ sleep_obs = SleepObsInit
    /\ completed = 1
    /\ fr \in [0 .. MaxBins - 1 -> FrVals]
    /\ fi \in [0 .. MaxBins - 1 -> FiVals]
    /\ max_fr = 0
    /\ peak_i = 0
    /\ UnusedRev
    /\ UnusedDL
    /\ UnusedFix

NextPeak ==
    \/ peak_step
    \/ peak_publish

SpecPeak == InitPeak /\ [][NextPeak]_vars

(***************************************************************************)
(* The bit reversal of FFTfix (combo.c 398-418) on its own.  The program   *)
(* is compiled for one length, NUM_SAMPLES = 2^LOG2_NUM_SAMPLES; here the  *)
(* length is 2^log2_n with SHIFT_AMOUNT = 16 - log2_n, for the program's   *)
(* length and for the short lengths up to 2^MaxLog2.                       *)
(***************************************************************************)
MaxLog2 == 3

LOG2_NUM_SAMPLES == 10

\* The lengths the bit reversal is run for.
Log2Lengths == (3 .. MaxLog2) \cup {LOG2_NUM_SAMPLES}

\* combo.c 343: length of short (16 bits) minus log2 number of samples
SHIFT_AMOUNT(lg) == 16 - lg

\* combo.c 341: number of samples minus 1
NUM_SAMPLES_M_1(lg) == 2^lg - 1

\* Bitwise and of two n-bit words.
RECURSIVE BitAnd(_, _, _)
BitAnd(x, y, n) ==
    IF n = 0 THEN 0
    ELSE (IF (x % 2 = 1) /\ (y % 2 = 1) THEN 1 ELSE 0)
         + 2 * BitAnd(x \div 2, y \div 2, n - 1)

\* ((x >> k) & mask) | ((x & mask) << k), stored in an unsigned short
SwapFields(x, k, mask) ==
    BitOr(BitAnd(x \div 2^k, mask, 16), BitAnd(x, mask, 16) * 2^k, 16) % 65536

\* combo.c 400-408: the 16-bit reversal of m shifted down
ReversedIndex(m, lg) ==
    LET m1 == SwapFields(m, 1, 21845)
        m2 == SwapFields(m1, 2, 13107)
        m4 == SwapFields(m2, 4, 3855)
        m8 == SwapFields(m4, 8, 255)
    IN  m8 \div 2^SHIFT_AMOUNT(lg)

\* Variant of AlreadySwapped: only self-pairs are skipped.
AlreadySwapped_selfonly(mr, m) == mr = m

\* combo.c 410: don't swap that which has already been swapped
AlreadySwapped(mr, m) == mr <= m

\* combo.c 398-418: one iteration of the loop
bitrev_step ==
    /\ pc_fft = "fft"
    /\ rev_m < NUM_SAMPLES_M_1(log2_n)
    /\ LET mr == ReversedIndex(rev_m, log2_n)
       IN  IF AlreadySwapped(mr, rev_m)
           THEN UNCHANGED << fr, fi, swapped >>
           ELSE /\ fr' = [fr EXCEPT ![rev_m] = fr[mr], ![mr] = fr[rev_m]]
                /\ fi' = [fi EXCEPT ![rev_m] = fi[mr], ![mr] = fi[rev_m]]
                /\ swapped' = [swapped EXCEPT ![rev_m] = @ + 1, ![mr] = @ + 1]
    /\ rev_m' = rev_m + 1
    /\ UNCHANGED << log2_n, peakVars, dlVars, fixVars, threadVars, ddsVars >>

\* What the arrays hold when FFTfix is entered: element k carries the tag k
\* in its real part and the tag -k-1 in its imaginary part.
RealTag(k) == k
ImagTag(k) == (-k) - 1

\* FFTfix has just been called by protothread_fft (combo.c 519).
InitBitrev ==
    /\ InitDDS
    /\ global_counter = 0
    /\ fr_max = 0
    /\ FFT_count = 0
    /\ InitSemaphores
    /\ cur_0 = "fft"
    /\ cur_1 = Threads_1[1]
    /\ pc_core_0 = "wait"
    /\ gc_reg_0 = 0
    /\ pc_core_1 = "wait"
    /\ gc_reg_1 = 0
    /\ pc_blink = "toggle"
    /\ LED = FALSE
    /\ pc_fft = "fft"
    /\ ffc_reg = 0
    /\ max_fr_dex = 0
    /\ fr_fi = "windowed"
    /\ rearmed = 1
    /\ adc_running = TRUE
    /\ dma_busy = TRUE
    /\ dma_trans_count = NUM_SAMPLES
    /\ dma_write_addr = 0
    /\ sample_array = 0
    /\ console = << >>
    /\ body_log = << >>
    /\ sleep_obs = SleepObsInit
    /\ completed = 0
    /\ log2_n \in Log2Lengths
    /\ fr = [k \in 0 .. 2^log2_n - 1 |-> RealTag(k)]
    /\ fi = [k \in 0 .. 2^log2_n - 1 |-> ImagTag(k)]
    /\ swapped = [k \in 0 .. 2^log2_n - 1 |-> 0]
    /\ rev_m = 1
    /\ UnusedDL
    /\ max_fr = 0
    /\ peak_i = 0
    /\ UnusedFix

NextBitrev == bitrev_step

SpecBitrev == InitBitrev /\ [][NextBitrev]_vars

(***************************************************************************)
(* The fix15 macros multfix15 and divfix (combo.c 47, 54) on their own,    *)
(* applied to operands drawn from FixVals.                                 *)
(***************************************************************************)
\* 32-bit signed operands: the extremes, values around the fix15 unit 2^15,
\* and values whose product or quotient leaves 32 bits.
FixVals ==
    { (-2147483647) - 1, -2147483647, -98304000, -65536, -32769, -32768, -7,
      -1, 0, 1, 3, 32767, 32768, 46341, 65536, 98304000, 1073741824,
      2147483647 }

\* combo.c 54 divides without testing b.  With b = 0 the C division is
\* undefined: the 64-bit divide helper the build calls may hand back any
\* value, of which these stand for all, or not return at all.
DivByZeroValues == { -1, 0, 2147483647 }

\* combo.c 47
apply_multfix15 ==
    /\ fix_op = "none"
    /\ fix_op' = "multfix15"
    /\ fix_r' = multfix15(fix_a, fix_b)
    /\ UNCHANGED << fix_a, fix_b, arrayVars, peakVars, revVars, dlVars,
                    threadVars, ddsVars >>

\* combo.c 54
apply_divfix ==
    /\ fix_op = "none"
    /\ IF fix_b # 0
       THEN /\ fix_op' = "divfix"
            /\ fix_r' = divfix(fix_a, fix_b)
       ELSE \/ /\ fix_op' = "divfix"
               /\ fix_r' \in DivByZeroValues
            \/ /\ fix_op' = "fault"
               /\ fix_r' = fix_r
    /\ UNCHANGED << fix_a, fix_b, arrayVars, peakVars, revVars, dlVars,
                    threadVars, ddsVars >>

\* The program as constructed, with operands for a macro.
InitFix ==
    /\ InitDDS
    /\ InitThreads
    /\ fr = << >>
    /\ fi = << >>
    /\ max_fr = 0
    /\ peak_i = 0
    /\ UnusedRev
    /\ UnusedDL
    /\ fix_a \in FixVals
    /\ fix_b \in FixVals
    /\ fix_op = "none"
    /\ fix_r = 0

NextFix ==
    \/ apply_multfix15
    \/ apply_divfix

SpecFix == InitFix /\ [][NextFix]_vars

(***************************************************************************)
(* FFTfix as a whole (combo.c 378-461): the bit reversal followed by the   *)
(* Danielson-Lanczos passes, on windowed samples (combo.c 505-509), for    *)
(* the program's length and for a short one.                              *)
(***************************************************************************)
\* Sinewave[ii] = float2fix15(sin(6.283 * ((float) ii) / (float)NUM_SAMPLES)),
\* indexed here from 1 (combo.c 668).
Sinewave ==
  <<
     0, 201, 402, 603, 804, 1005, 1206, 1406,
     1607, 1808, 2009, 2209, 2410, 2610, 2811, 3011,
     3211, 3411, 3611, 3811, 4011, 4210, 4409, 4608,
     4807, 5006, 5205, 5403, 5601, 5799, 5997, 6195,
     6392, 6589, 6786, 6982, 7179, 7375, 7571, 7766,
     7961, 8156, 8351, 8545, 8739, 8932, 9126, 9319,
     9511, 9703, 9895, 10087, 10278, 10469, 10659, 10849,
     11038, 11227, 11416, 11604, 11792, 11980, 12166, 12353,
     12539, 12724, 12909, 13094, 13278, 13462, 13645, 13827,
     14009, 14191, 14372, 14552, 14732, 14911, 15090, 15268,
     15446, 15623, 15799, 15975, 16150, 16325, 16499, 16672,
     16845, 17017, 17189, 17360, 17530, 17699, 17868, 18036,
     18204, 18371, 18537, 18702, 18867, 19031, 19194, 19357,
     19519, 19680, 19840, 20000, 20159, 20317, 20474, 20631,
     20787, 20942, 21096, 21250, 21402, 21554, 21705, 21855,
     22005, 22153, 22301, 22448, 22594, 22739, 22883, 23027,
     23169, 23311, 23452, 23592, 23731, 23869, 24007, 24143,
     24278, 24413, 24547, 24679, 24811, 24942, 25072, 25201,
     25329, 25456, 25582, 25707, 25831, 25955, 26077, 26198,
     26318, 26438, 26556, 26673, 26790, 26905, 27019, 27132,
     27245, 27356, 27466, 27575, 27683, 27790, 27896, 28001,
     28105, 28208, 28310, 28410, 28510, 28609, 28706, 28802,
     28898, 28992, 29085, 29177, 29268, 29358, 29447, 29534,
     29621, 29706, 29791, 29874, 29956, 30037, 30117, 30195,
     30273, 30349, 30424, 30498, 30571, 30643, 30714, 30783,
     30852, 30919, 30985, 31050, 31113, 31176, 31237, 31297,
     31356, 31414, 31471, 31526, 31580, 31633, 31685, 31736,
     31785, 31833, 31880, 31926, 31971, 32014, 32057, 32098,
     32138, 32176, 32214, 32250, 32285, 32319, 32351, 32383,
     32413, 32442, 32469, 32496, 32521, 32545, 32568, 32589,
     32610, 32629, 32647, 32663, 32679, 32693, 32706, 32717,
     32728, 32737, 32745, 32752, 32758, 32762, 32765, 32767,
     32767, 32767, 32765, 32762, 32758, 32752, 32745, 32737,
     32728, 32718, 32706, 32693, 32679, 32663, 32647, 32629,
     32610, 32590, 32568, 32545, 32521, 32496, 32470, 32442,
     32413, 32383, 32352, 32319, 32285, 32250, 32214, 32177,
     32138, 32098, 32057, 32015, 31972, 31927, 31881, 31834,
     31786, 31736, 31686, 31634, 31581, 31527, 31471, 31415,
     31357, 31298, 31238, 31177, 31114, 31051, 30986, 30920,
     30853, 30784, 30715, 30644, 30572, 30500, 30425, 30350,
     30274, 30196, 30118, 30038, 29957, 29875, 29792, 29708,
     29622, 29536, 29448, 29359, 29270, 29179, 29087, 28993,
     28899, 28804, 28708, 28610, 28512, 28412, 28311, 28209,
     28107, 28003, 27898, 27792, 27685, 27577, 27468, 27357,
     27246, 27134, 27021, 26907, 26791, 26675, 26558, 26440,
     26320, 26200, 26079, 25957, 25833, 25709, 25584, 25458,
     25331, 25203, 25074, 24944, 24813, 24681, 24549, 24415,
     24280, 24145, 24009, 23871, 23733, 23594, 23454, 23313,
     23172, 23029, 22886, 22741, 22596, 22450, 22303, 22155,
     22007, 21857, 21707, 21556, 21404, 21252, 21098, 20944,
     20789, 20633, 20477, 20319, 20161, 20002, 19843, 19682,
     19521, 19359, 19197, 19034, 18870, 18705, 18539, 18373,
     18206, 18039, 17871, 17702, 17532, 17362, 17191, 17020,
     16848, 16675, 16502, 16328, 16153, 15978, 15802, 15626,
     15448, 15271, 15093, 14914, 14735, 14555, 14374, 14193,
     14012, 13830, 13647, 13464, 13281, 13097, 12912, 12727,
     12542, 12356, 12169, 11982, 11795, 11607, 11419, 11230,
     11041, 10852, 10662, 10472, 10281, 10090, 9898, 9706,
     9514, 9322, 9129, 8935, 8742, 8548, 8354, 8159,
     7964, 7769, 7574, 7378, 7182, 6985, 6789, 6592,
     6395, 6198, 6000, 5802, 5604, 5406, 5208, 5009,
     4810, 4611, 4412, 4213, 4014, 3814, 3614, 3414,
     3214, 3014, 2814, 2613, 2413, 2212, 2012, 1811,
     1610, 1409, 1209, 1008, 807, 606, 405, 204,
     3, -198, -399, -600, -801, -1002, -1203, -1403,
     -1604, -1805, -2006, -2206, -2407, -2607, -2808, -3008,
     -3208, -3408, -3608, -3808, -4008, -4207, -4406, -4605,
     -4804, -5003, -5202, -5400, -5598, -5796, -5994, -6192,
     -6389, -6586, -6783, -6980, -7176, -7372, -7568, -7763,
     -7958, -8153, -8348, -8542, -8736, -8930, -9123, -9316,
     -9508, -9701, -9892, -10084, -10275, -10466, -10656, -10846,
     -11036, -11225, -11413, -11602, -11789, -11977, -12164, -12350,
     -12536, -12722, -12907, -13091, -13275, -13459, -13642, -13824,
     -14006, -14188, -14369, -14549, -14729, -14909, -15087, -15266,
     -15443, -15620, -15797, -15972, -16148, -16322, -16496, -16670,
     -16843, -17015, -17186, -17357, -17527, -17697, -17866, -18034,
     -18201, -18368, -18534, -18700, -18865, -19029, -19192, -19355,
     -19516, -19678, -19838, -19998, -20157, -20315, -20472, -20629,
     -20784, -20939, -21094, -21247, -21400, -21552, -21703, -21853,
     -22002, -22151, -22299, -22446, -22592, -22737, -22881, -23025,
     -23167, -23309, -23450, -23590, -23729, -23867, -24005, -24141,
     -24276, -24411, -24545, -24677, -24809, -24940, -25070, -25199,
     -25327, -25454, -25580, -25705, -25830, -25953, -26075, -26196,
     -26317, -26436, -26554, -26672, -26788, -26903, -27017, -27131,
     -27243, -27354, -27464, -27573, -27682, -27789, -27895, -28000,
     -28103, -28206, -28308, -28409, -28509, -28607, -28705, -28801,
     -28896, -28991, -29084, -29176, -29267, -29357, -29445, -29533,
     -29620, -29705, -29789, -29873, -29955, -30036, -30115, -30194,
     -30272, -30348, -30423, -30497, -30570, -30642, -30713, -30782,
     -30851, -30918, -30984, -31049, -31112, -31175, -31236, -31296,
     -31355, -31413, -31470, -31525, -31579, -31632, -31684, -31735,
     -31784, -31833, -31880, -31926, -31970, -32014, -32056, -32097,
     -32137, -32176, -32213, -32249, -32284, -32318, -32351, -32382,
     -32412, -32441, -32469, -32495, -32521, -32545, -32567, -32589,
     -32609, -32628, -32646, -32663, -32678, -32693, -32706, -32717,
     -32728, -32737, -32745, -32752, -32758, -32762, -32765, -32767,
     -32767, -32767, -32765, -32762, -32758, -32752, -32745, -32737,
     -32728, -32718, -32706, -32693, -32679, -32664, -32647, -32629,
     -32610, -32590, -32568, -32546, -32522, -32496, -32470, -32442,
     -32414, -32383, -32352, -32320, -32286, -32251, -32215, -32177,
     -32139, -32099, -32058, -32016, -31972, -31928, -31882, -31835,
     -31787, -31737, -31687, -31635, -31582, -31528, -31472, -31416,
     -31358, -31299, -31239, -31178, -31115, -31052, -30987, -30921,
     -30854, -30785, -30716, -30645, -30574, -30501, -30427, -30351,
     -30275, -30198, -30119, -30039, -29958, -29876, -29793, -29709,
     -29624, -29537, -29449, -29361, -29271, -29180, -29088, -28995,
     -28901, -28805, -28709, -28612, -28513, -28413, -28313, -28211,
     -28108, -28004, -27899, -27793, -27686, -27578, -27469, -27359,
     -27248, -27136, -27023, -26908, -26793, -26677, -26560, -26441,
     -26322, -26202, -26081, -25958, -25835, -25711, -25586, -25460,
     -25333, -25205, -25076, -24946, -24815, -24683, -24551, -24417,
     -24283, -24147, -24011, -23873, -23735, -23596, -23456, -23315,
     -23174, -23031, -22888, -22743, -22598, -22452, -22305, -22158,
     -22009, -21860, -21710, -21559, -21407, -21254, -21101, -20946,
     -20791, -20636, -20479, -20322, -20164, -20005, -19845, -19685,
     -19524, -19362, -19199, -19036, -18872, -18707, -18542, -18376,
     -18209, -18042, -17873, -17704, -17535, -17365, -17194, -17022,
     -16850, -16678, -16504, -16330, -16156, -15980, -15805, -15628,
     -15451, -15274, -15095, -14917, -14737, -14558, -14377, -14196,
     -14015, -13833, -13650, -13467, -13284, -13100, -12915, -12730,
     -12545, -12359, -12172, -11985, -11798, -11610, -11422, -11233,
     -11044, -10855, -10665, -10474, -10284, -10093, -9901, -9709,
     -9517, -9325, -9132, -8938, -8745, -8551, -8357, -8162,
     -7967, -7772, -7577, -7381, -7185, -6988, -6792, -6595,
     -6398, -6201, -6003, -5805, -5607, -5409, -5211, -5012,
     -4813, -4614, -4415, -4216, -4017, -3817, -3617, -3417,
     -3217, -3017, -2817, -2617, -2416, -2215, -2015, -1814,
     -1613, -1413, -1212, -1011, -810, -609, -408, -207
  >>

\* window[ii] = float2fix15(0.5 * (1.0 - cos(6.283 * ((float) ii) /
\* ((float)NUM_SAMPLES)))), indexed here from 1 (combo.c 669).
window ==
  <<
     0, 0, 1, 2, 4, 7, 11, 15,
     19, 24, 30, 37, 44, 52, 60, 69,
     78, 89, 99, 111, 123, 135, 149, 162,
     177, 192, 208, 224, 241, 258, 276, 295,
     314, 334, 355, 376, 398, 420, 443, 466,
     490, 515, 541, 566, 593, 620, 648, 676,
     705, 734, 764, 795, 826, 858, 891, 924,
     957, 991, 1026, 1061, 1097, 1134, 1171, 1208,
     1247, 1285, 1325, 1365, 1405, 1446, 1488, 1530,
     1572, 1616, 1660, 1704, 1749, 1794, 1840, 1887,
     1934, 1982, 2030, 2079, 2128, 2178, 2228, 2279,
     2330, 2382, 2435, 2488, 2541, 2595, 2650, 2705,
     2761, 2817, 2873, 2930, 2988, 3046, 3105, 3164,
     3224, 3284, 3344, 3405, 3467, 3529, 3592, 3655,
     3718, 3782, 3847, 3912, 3977, 4043, 4109, 4176,
     4244, 4311, 4379, 4448, 4517, 4587, 4657, 4727,
     4798, 4869, 4941, 5013, 5086, 5159, 5232, 5306,
     5380, 5455, 5530, 5606, 5682, 5758, 5835, 5912,
     5989, 6067, 6145, 6224, 6303, 6383, 6462, 6543,
     6623, 6704, 6785, 6867, 6949, 7031, 7114, 7197,
     7281, 7364, 7448, 7533, 7618, 7703, 7788, 7874,
     7960, 8046, 8133, 8220, 8307, 8395, 8483, 8571,
     8660, 8748, 8838, 8927, 9017, 9107, 9197, 9287,
     9378, 9469, 9560, 9652, 9744, 9836, 9928, 10020,
     10113, 10206, 10299, 10393, 10486, 10580, 10674, 10769,
     10863, 10958, 11053, 11148, 11244, 11339, 11435, 11531,
     11627, 11723, 11820, 11916, 12013, 12110, 12207, 12304,
     12402, 12499, 12597, 12695, 12793, 12891, 12990, 13088,
     13186, 13285, 13384, 13483, 13582, 13681, 13780, 13879,
     13979, 14078, 14178, 14277, 14377, 14477, 14577, 14677,
     14777, 14877, 14977, 15077, 15177, 15278, 15378, 15478,
     15579, 15679, 15780, 15880, 15981, 16081, 16182, 16282,
     16383, 16483, 16584, 16684, 16785, 16885, 16986, 17086,
     17187, 17287, 17387, 17488, 17588, 17688, 17788, 17889,
     17989, 18089, 18189, 18288, 18388, 18488, 18588, 18687,
     18787, 18886, 18985, 19085, 19184, 19283, 19382, 19480,
     19579, 19678, 19776, 19874, 19972, 20070, 20168, 20266,
     20364, 20461, 20558, 20655, 20752, 20849, 20946, 21042,
     21139, 21235, 21331, 21426, 21522, 21617, 21713, 21807,
     21902, 21997, 22091, 22185, 22279, 22373, 22466, 22560,
     22653, 22745, 22838, 22930, 23022, 23114, 23205, 23297,
     23388, 23478, 23569, 23659, 23749, 23839, 23928, 24017,
     24106, 24195, 24283, 24371, 24458, 24546, 24633, 24719,
     24806, 24892, 24978, 25063, 25148, 25233, 25317, 25401,
     25485, 25569, 25652, 25734, 25817, 25899, 25980, 26062,
     26143, 26223, 26303, 26383, 26463, 26542, 26620, 26699,
     26777, 26854, 26931, 27008, 27084, 27160, 27236, 27311,
     27385, 27460, 27534, 27607, 27680, 27753, 27825, 27897,
     27968, 28039, 28109, 28179, 28249, 28318, 28387, 28455,
     28522, 28590, 28657, 28723, 28789, 28854, 28919, 28984,
     29048, 29111, 29174, 29237, 29299, 29361, 29422, 29482,
     29543, 29602, 29661, 29720, 29778, 29836, 29893, 29950,
     30006, 30061, 30116, 30171, 30225, 30278, 30331, 30384,
     30436, 30487, 30538, 30589, 30638, 30688, 30736, 30785,
     30832, 30879, 30926, 30972, 31018, 31062, 31107, 31151,
     31194, 31237, 31279, 31320, 31361, 31402, 31442, 31481,
     31520, 31558, 31596, 31633, 31669, 31705, 31740, 31775,
     31809, 31843, 31876, 31908, 31940, 31971, 32002, 32032,
     32062, 32091, 32119, 32147, 32174, 32200, 32226, 32251,
     32276, 32300, 32324, 32347, 32369, 32391, 32412, 32432,
     32452, 32472, 32490, 32509, 32526, 32543, 32559, 32575,
     32590, 32604, 32618, 32631, 32644, 32656, 32668, 32678,
     32688, 32698, 32707, 32715, 32723, 32730, 32737, 32742,
     32748, 32752, 32756, 32760, 32763, 32765, 32766, 32767,
     32767, 32767, 32766, 32765, 32763, 32760, 32756, 32752,
     32748, 32743, 32737, 32730, 32723, 32716, 32707, 32698,
     32689, 32679, 32668, 32656, 32644, 32632, 32619, 32605,
     32590, 32575, 32560, 32543, 32527, 32509, 32491, 32472,
     32453, 32433, 32413, 32391, 32370, 32347, 32325, 32301,
     32277, 32252, 32227, 32201, 32174, 32147, 32120, 32091,
     32062, 32033, 32003, 31972, 31941, 31909, 31877, 31844,
     31810, 31776, 31741, 31706, 31670, 31634, 31597, 31559,
     31521, 31482, 31443, 31403, 31363, 31322, 31280, 31238,
     31195, 31152, 31108, 31064, 31019, 30973, 30927, 30881,
     30834, 30786, 30738, 30689, 30640, 30590, 30540, 30489,
     30437, 30386, 30333, 30280, 30227, 30173, 30118, 30063,
     30007, 29951, 29895, 29837, 29780, 29722, 29663, 29604,
     29544, 29484, 29424, 29362, 29301, 29239, 29176, 29113,
     29050, 28986, 28921, 28856, 28791, 28725, 28659, 28592,
     28525, 28457, 28389, 28320, 28251, 28181, 28111, 28041,
     27970, 27899, 27827, 27755, 27682, 27609, 27536, 27462,
     27388, 27313, 27238, 27162, 27087, 27010, 26934, 26856,
     26779, 26701, 26623, 26544, 26465, 26386, 26306, 26226,
     26145, 26064, 25983, 25901, 25819, 25737, 25654, 25571,
     25488, 25404, 25320, 25235, 25151, 25066, 24980, 24894,
     24808, 24722, 24635, 24548, 24461, 24373, 24285, 24197,
     24109, 24020, 23931, 23841, 23752, 23662, 23572, 23481,
     23390, 23299, 23208, 23117, 23025, 22933, 22841, 22748,
     22655, 22562, 22469, 22376, 22282, 22188, 22094, 22000,
     21905, 21810, 21715, 21620, 21525, 21429, 21334, 21238,
     21142, 21045, 20949, 20852, 20755, 20658, 20561, 20464,
     20367, 20269, 20171, 20073, 19975, 19877, 19779, 19681,
     19582, 19483, 19385, 19286, 19187, 19088, 18988, 18889,
     18790, 18690, 18591, 18491, 18391, 18291, 18192, 18092,
     17992, 17892, 17791, 17691, 17591, 17491, 17390, 17290,
     17190, 17089, 16989, 16888, 16788, 16687, 16587, 16486,
     16386, 16285, 16185, 16084, 15984, 15883, 15783, 15682,
     15582, 15481, 15381, 15281, 15181, 15080, 14980, 14880,
     14780, 14680, 14580, 14480, 14380, 14281, 14181, 14081,
     13982, 13882, 13783, 13684, 13585, 13486, 13387, 13288,
     13189, 13091, 12993, 12894, 12796, 12698, 12600, 12502,
     12405, 12307, 12210, 12113, 12016, 11919, 11823, 11726,
     11630, 11534, 11438, 11342, 11246, 11151, 11056, 10961,
     10866, 10772, 10677, 10583, 10489, 10396, 10302, 10209,
     10116, 10023, 9931, 9838, 9746, 9655, 9563, 9472,
     9381, 9290, 9199, 9109, 9019, 8930, 8840, 8751,
     8662, 8574, 8486, 8398, 8310, 8223, 8136, 8049,
     7963, 7877, 7791, 7705, 7620, 7535, 7451, 7367,
     7283, 7200, 7117, 7034, 6952, 6870, 6788, 6707,
     6626, 6545, 6465, 6385, 6306, 6227, 6148, 6070,
     5992, 5914, 5837, 5760, 5684, 5608, 5532, 5457,
     5383, 5308, 5234, 5161, 5088, 5015, 4943, 4871,
     4800, 4729, 4659, 4589, 4519, 4450, 4382, 4313,
     4246, 4178, 4111, 4045, 3979, 3914, 3849, 3784,
     3720, 3657, 3594, 3531, 3469, 3407, 3346, 3286,
     3225, 3166, 3107, 3048, 2990, 2932, 2875, 2818,
     2762, 2707, 2652, 2597, 2543, 2489, 2436, 2384,
     2332, 2280, 2230, 2179, 2129, 2080, 2031, 1983,
     1935, 1888, 1842, 1796, 1750, 1705, 1661, 1617,
     1574, 1531, 1489, 1447, 1406, 1366, 1326, 1287,
     1248, 1210, 1172, 1135, 1098, 1062, 1027, 992,
     958, 925, 892, 859, 827, 796, 765, 735,
     706, 677, 649, 621, 594, 567, 541, 516,
     491, 467, 444, 421, 398, 376, 355, 335,
     315, 296, 277, 259, 241, 224, 208, 192,
     177, 163, 149, 136, 123, 111, 100, 89,
     79, 69, 60, 52, 44, 37, 31, 25,
     19, 15, 11, 7, 5, 2, 1, 0
  >>

\* log2 of the short transform length.
ShortLog2 == 3

\* The lengths FFTfix is run for.
FFTLengths == {ShortLog2, LOG2_NUM_SAMPLES}

\* combo.c 339: the number of samples of a transform of log2 length lg
NumSamples(lg) == 2^lg

\* The tables of a transform of length 2^lg: the formulas of combo.c 668-669
\* with 2^lg for NUM_SAMPLES give every (NUM_SAMPLES / 2^lg)-th entry.
SinewaveAt(lg, ii) == Sinewave[ii * 2^(LOG2_NUM_SAMPLES - lg) + 1]
windowAt(lg, ii) == window[ii * 2^(LOG2_NUM_SAMPLES - lg) + 1]

\* The number of levels the 8-bit samples are drawn from.
MaxLevels == 2

SampleLevels == { (255 * l) \div (MaxLevels - 1) : l \in 0 .. MaxLevels - 1 }

\* What sample_array can hold: at the short length every array over the
\* levels; at the program's length the square waves of half-period 2^p
\* between a level and 0, for the even p (p = lg: the constant signal).
SampleInputs(lg) ==
    IF lg = ShortLog2
    THEN [0 .. NumSamples(lg) - 1 -> SampleLevels]
    ELSE { [ii \in 0 .. NumSamples(lg) - 1 |->
               IF (ii \div 2^p) % 2 = 0 THEN h ELSE 0] :
           p \in { 2 * q : q \in 0 .. lg \div 2 }, h \in SampleLevels \ {0} }

\* combo.c 506-509: copy/window elements into a fixed-point array
Windowed(samples, lg) ==
    [ii \in 0 .. NumSamples(lg) - 1 |->
        multfix15(int2fix15(samples[ii]), windowAt(lg, ii))]

\* A signed 32-bit sum or difference that does not overflow.
SumInRange(a, b) ==
    IF b >= 0 THEN a <= 2147483647 - b ELSE a >= ((-2147483647) - 1) - b
DiffInRange(a, b) ==
    IF b >= 0 THEN a >= ((-2147483647) - 1) + b ELSE a <= 2147483647 + b

\* Variant of Halve: the value is not halved.
Halve_not(x) == x

\* x >> 1 on a signed int (arithmetic shift: combo.c 439-440, 449-450)
Halve(x) == x \div 2

\* Variant of TwiddleIndex: shifted one place too far.
TwiddleIndex_wide(m, k) == m * 2^(k + 1)

\* combo.c 436: j = m << k
TwiddleIndex(m, k) == m * 2^k

\* combo.c 425-427: the bit reversal loop is over, L = 1 and k = log2(N) - 1
dl_begin ==
    /\ pc_fft = "fft"
    /\ dl_pc = "reverse"
    /\ rev_m = NUM_SAMPLES_M_1(log2_n)
    /\ dl_L' = 1
    /\ dl_k' = log2_n - 1
    /\ dl_pc' = "while"
    /\ UNCHANGED << dl_m, dl_i, dl_j, dl_istep, dl_wr, dl_wi, dl_passes,
                    arrayVars, peakVars, revVars, fixVars, threadVars,
                    ddsVars >>

\* combo.c 430-434, 461: while (L < NUM_SAMPLES), istep = L<<1, m = 0
dl_while ==
    /\ dl_pc = "while"
    /\ IF dl_L < NumSamples(log2_n)
       THEN /\ dl_istep' = dl_L * 2
            /\ dl_m' = 0
            /\ dl_passes' = dl_passes + 1
            /\ dl_pc' = "for_m"
       ELSE /\ dl_pc' = "return"
            /\ UNCHANGED << dl_istep, dl_m, dl_passes >>
    /\ UNCHANGED << dl_L, dl_k, dl_i, dl_j, dl_wr, dl_wi,
                    arrayVars, peakVars, revVars, fixVars, threadVars,
                    ddsVars >>

\* combo.c 434-442, 458-459: for (m=0; m<L; ++m), the trig values of m,
\* i = m; after the last m, --k and L = istep.  A sine table index outside
\* the table is a read out of bounds.
dl_for_m ==
    /\ dl_pc = "for_m"
    /\ IF dl_m < dl_L
       THEN LET jj == TwiddleIndex(dl_m, dl_k)
            IN  /\ dl_j' = jj
                /\ IF jj + NumSamples(log2_n) \div 4 < NumSamples(log2_n)
                   THEN /\ dl_wr' = Halve(SinewaveAt(log2_n,
                                            jj + NumSamples(log2_n) \div 4))
                        /\ dl_wi' = Halve(-SinewaveAt(log2_n, jj))
                        /\ dl_i' = dl_m
                        /\ dl_pc' = "for_i"
                   ELSE /\ dl_pc' = "out_of_bounds"
                        /\ UNCHANGED << dl_wr, dl_wi, dl_i >>
                /\ UNCHANGED << dl_k, dl_L >>
       ELSE /\ dl_k' = dl_k - 1
            /\ dl_L' = dl_istep
            /\ dl_pc' = "while"
            /\ UNCHANGED << dl_j, dl_wr, dl_wi, dl_i >>
    /\ UNCHANGED << dl_m, dl_istep, dl_passes,
                    arrayVars, peakVars, revVars, fixVars, threadVars,
                    ddsVars >>

\* combo.c 442-456, 434: for (i=m; i<NUM_SAMPLES; i+=istep), one butterfly;
\* after the last i, ++m (an unsigned short).  An element index outside the
\* arrays is an access out of bounds; a signed sum or difference that does
\* not fit 32 bits is an overflow: what the program does next is undefined.
dl_for_i ==
    /\ dl_pc = "for_i"
    /\ IF dl_i < NumSamples(log2_n)
       THEN LET jj == dl_i + dl_L
            IN  /\ dl_j' = jj
                /\ IF jj >= NumSamples(log2_n)
                   THEN /\ dl_pc' = "out_of_bounds"
                        /\ UNCHANGED << fr, fi, dl_i >>
                   ELSE LET p1 == multfix15(dl_wr, fr[jj])
                            p2 == multfix15(dl_wi, fi[jj])
                            p3 == multfix15(dl_wr, fi[jj])
                            p4 == multfix15(dl_wi, fr[jj])
                            qr == Halve(fr[dl_i])
                            qi == Halve(fi[dl_i])
                        IN  IF /\ DiffInRange(p1, p2)
                               /\ SumInRange(p3, p4)
                               /\ DiffInRange(qr, p1 - p2)
                               /\ SumInRange(qr, p1 - p2)
                               /\ DiffInRange(qi, p3 + p4)
                               /\ SumInRange(qi, p3 + p4)
                            THEN /\ fr' = [fr EXCEPT ![jj] = qr - (p1 - p2),
                                                     ![dl_i] = qr + (p1 - p2)]
                                 /\ fi' = [fi EXCEPT ![jj] = qi - (p3 + p4),
                                                     ![dl_i] = qi + (p3 + p4)]
                                 /\ dl_i' = dl_i + dl_istep
                                 /\ dl_pc' = dl_pc
                            ELSE /\ dl_pc' = "overflow"
                                 /\ UNCHANGED << fr, fi, dl_i >>
                /\ UNCHANGED dl_m
       ELSE /\ dl_m' = (dl_m + 1) % 65536
            /\ dl_pc' = "for_m"
            /\ UNCHANGED << fr, fi, dl_i, dl_j >>
    /\ UNCHANGED << dl_L, dl_k, dl_istep, dl_wr, dl_wi, dl_passes,
                    peakVars, revVars, fixVars, threadVars, ddsVars >>

\* FFTfix has just been called by protothread_fft on the windowed copy of
\* the samples (combo.c 505-519).
InitFFT ==
    /\ InitDDS
    /\ global_counter = 0
    /\ fr_max = 0
    /\ FFT_count = 0
    /\ InitSemaphores
    /\ cur_0 = "fft"
    /\ cur_1 = Threads_1[1]
    /\ pc_core_0 = "wait"
    /\ gc_reg_0 = 0
    /\ pc_core_1 = "wait"
    /\ gc_reg_1 = 0
    /\ pc_blink = "toggle"
    /\ LED = FALSE
    /\ pc_fft = "fft"
    /\ ffc_reg = 0
    /\ max_fr_dex = 0
    /\ fr_fi = "windowed"
    /\ rearmed = 1
    /\ adc_running = TRUE
    /\ dma_busy = TRUE
    /\ dma_trans_count = NUM_SAMPLES
    /\ dma_write_addr = 0
    /\ sample_array = 0
    /\ console = << >>
    /\ body_log = << >>
    /\ sleep_obs = SleepObsInit
    /\ completed = 0
    /\ log2_n \in FFTLengths
    /\ fr \in { Windowed(samples, log2_n) : samples \in SampleInputs(log2_n) }
    /\ fi = [ii \in 0 .. NumSamples(log2_n) - 1 |-> 0]
    /\ swapped = [ii \in 0 .. NumSamples(log2_n) - 1 |-> 0]
    /\ rev_m = 1
    /\ dl_pc = "reverse"
    /\ dl_L = 0
    /\ dl_k = 0
    /\ dl_m = 0
    /\ dl_i = 0
    /\ dl_j = 0
    /\ dl_istep = 0
    /\ dl_wr = 0
    /\ dl_wi = 0
    /\ dl_passes = 0
    /\ max_fr = 0
    /\ peak_i = 0
    /\ UnusedFix

FFTfix ==
    \/ bitrev_step
    \/ dl_begin
    \/ dl_while
    \/ dl_for_m
    \/ dl_for_i

NextFFT == FFTfix

SpecFFT == InitFFT /\ [][NextFFT]_vars

(***************************************************************************)
(* Properties.                                                             *)
(***************************************************************************)
\* A heartbeat task is in its body: it has completed its semaphore wait and
\* has not yet issued its signal.
InBody(pc) == pc \in {"load", "store", "print", "reset", "yield", "sleeping", "signal"}

\* C1 (Spec): heartbeat mutual exclusion.  Whenever one core's heartbeat task
\* is between completing its wait and issuing its signal, the other core's
\* heartbeat task is at its wait and its semaphore is not available: the two
\* bodies are never active together.
C1_MutualExclusion ==
    /\ InBody(pc_core_0) => (pc_core_1 = "wait" /\ ~SemReady(core_1_go))
    /\ InBody(pc_core_1) => (pc_core_0 = "wait" /\ ~SemReady(core_0_go))

\* Core 1's body is running, after core 0's first one, while core 0 waits.
C1_Witness ==
    /\ pc_core_1 = "print"
    /\ pc_core_0 = "wait"
    /\ Len(body_log) = 2

\* C2 (Spec): strict alternation starting with core 0.  The heartbeat bodies
\* execute in the order core 0, core 1, core 0, core 1, ...
C2_StrictAlternation ==
    \A i \in 1..Len(body_log) : body_log[i] = (i - 1) % 2

\* Three bodies have started: core 0, core 1, core 0.
C2_Witness == body_log = << 0, 1, 0 >>

\* The heartbeat tasks that have completed a wait and not yet stored the
\* increment of global_counter.
PendingIncrements ==
    (IF pc_core_0 \in {"load", "store"} THEN 1 ELSE 0)
    + (IF pc_core_1 \in {"load", "store"} THEN 1 ELSE 0)

\* The heartbeat tasks that have completed a wait and not yet printed.
PendingLines ==
    (IF pc_core_0 \in {"load", "store", "print"} THEN 1 ELSE 0)
    + (IF pc_core_1 \in {"load", "store", "print"} THEN 1 ELSE 0)

\* C3 as stated (Spec): in every reachable state global_counter equals the
\* number of semaphore waits the two heartbeat tasks have completed.
C3_CounterEqualsWaits == global_counter = Len(body_log)

\* C3 as amended (Spec): global_counter equals the number of completed waits
\* less the (at most one) task that has completed its wait and not yet
\* stored its increment; the k-th completed wait prints the status line
\* with counter k, so consecutive status lines differ by exactly 1.
C3_CounterTracksWaits ==
    /\ PendingIncrements <= 1
    /\ global_counter = Len(body_log) - PendingIncrements
    /\ console = << >> => Len(body_log) - PendingLines = 0
    /\ console # << >> => console[1].counter = Len(body_log) - PendingLines

\* Core 1 has printed the second status line, with counter 2.
C3_Witness ==
    /\ console # << >>
    /\ console[1].core = 1
    /\ console[1].counter = 2
    /\ global_counter = 2

\* C4 (Spec): each status line reports the number of transforms completed
\* since the previous status line: no reset and no increment of FFT_count is
\* lost.
C4_ReportExact ==
    console # << >> => console[1].ffts = console[1].done

\* C5 (SpecCapture): while the FFT task is at its copy/window loop the sample
\* channel is idle with its epoch complete and not re-armed; a running sample
\* channel writes inside sample_array only; fr and fi hold only what the FFT
\* task has written.
C5_NoConcurrentMutation ==
    /\ pc_fft = "copy" =>
          (~dma_busy /\ dma_trans_count = 0 /\ sample_array = NUM_SAMPLES /\ rearmed = 0)
    /\ dma_busy => dma_write_addr + dma_trans_count = NUM_SAMPLES
    /\ dma_write_addr <= NUM_SAMPLES
    /\ fr_fi \in {"zero", "windowed", "spectrum", "magnitude"}

\* The FFT task is about to copy the second epoch, fr still holding the
\* magnitudes of the first.
C5_Witness ==
    /\ pc_fft = "copy"
    /\ fr_fi = "magnitude"
    /\ completed = 1

\* C6 (SpecCapture): the FFT task passes its wait only with exactly
\* NUM_SAMPLES samples gathered since the last (re)start; it re-arms the
\* acquisition exactly once per epoch, after the wait and the copy and before
\* the transform.
C6_EpochOrdering ==
    /\ pc_fft \in {"copy", "rearm"} =>
          (sample_array = NUM_SAMPLES /\ dma_trans_count = 0 /\ ~dma_busy /\ rearmed = 0)
    /\ pc_fft \in {"fft", "count", "peak", "yield", "sleeping"} =>
          (rearmed = 1 /\ sample_array = NUM_SAMPLES - dma_trans_count)
    /\ pc_fft = "wait" => rearmed = (IF fr_fi = "zero" THEN 0 ELSE 1)

\* The second transform is about to start while the third epoch is being
\* captured.
C6_Witness ==
    /\ pc_fft = "fft"
    /\ completed = 1
    /\ rearmed = 1
    /\ dma_busy
    /\ sample_array \in 1..(NUM_SAMPLES - 1)

\* The FFT task is at its capture wait and the epoch is not complete.
FftWaitsForEpoch == pc_fft = "wait" /\ dma_busy

\* C7 as stated (Spec): while the FFT task waits for a capture epoch, the
\* core-0 heartbeat task remains schedulable: with core_0_go pending it can
\* complete its wait before the epoch completes.
C7_WaitSuspendsOnlyTask ==
    (/\ FftWaitsForEpoch
     /\ pc_core_0 = "wait"
     /\ SemReady(core_0_go)
     /\ Len(body_log) < MaxBodies) => ENABLED core_0_wait

\* C7 as amended (Spec): the capture wait is a blocking spin that holds core
\* 0: while the FFT task waits for a capture epoch to complete, core 0 is
\* running the FFT task and the core-0 heartbeat task can take no step.
C7_WaitHoldsCore ==
    FftWaitsForEpoch => (cur_0 = "fft" /\ ~ENABLED protothread_core_0)

\* The FFT task spins on an incomplete epoch while core_0_go is pending for
\* the waiting core-0 heartbeat task.
C7_Witness ==
    /\ FftWaitsForEpoch
    /\ pc_core_0 = "wait"
    /\ SemReady(core_0_go)
    /\ Len(body_log) < MaxBodies

\* C8 (SpecDDS): whenever a core's envelope is SILENT (STATE # 0) that core's
\* amplitude is exactly 0.
C8_SilentAmplitudeZero ==
    /\ STATE_L # 0 => current_amplitude_0 = 0
    /\ STATE_R # 0 => current_amplitude_1 = 0

\* C9 (SpecDDS): every completed ACTIVE period lasted exactly BEEP_DURATION
\* ticks and every completed SILENT period exactly BEEP_REPEAT_INTERVAL
\* ticks, a period in progress has not outlasted that, elapsed counts the
\* ticks of the period in progress, and ACTIVE is entered exactly on the
\* ticks that are multiples of BEEP_DURATION + BEEP_REPEAT_INTERVAL.
CycleLengthOK(obs, state, count) ==
    /\ obs.active \in {0, BEEP_DURATION}
    /\ obs.silent \in {0, BEEP_REPEAT_INTERVAL}
    /\ obs.run = count
    /\ state = 0 => obs.run < BEEP_DURATION
    /\ state # 0 => obs.run < BEEP_REPEAT_INTERVAL
    /\ obs.n % CHIRP_CYCLE_TIME = (IF state = 0 THEN 0 ELSE BEEP_DURATION) + obs.run

C9_CycleLength ==
    /\ CycleLengthOK(obs_0, STATE_L, count_L)
    /\ CycleLengthOK(obs_1, STATE_R, count_R)

\* Core 0 re-enters ACTIVE with elapsed = 0 on its tick number
\* BEEP_DURATION + BEEP_REPEAT_INTERVAL; core 1 has re-entered before.
C9_Witness ==
    /\ STATE_L = 0
    /\ count_L = 0
    /\ obs_0.n = CHIRP_CYCLE_TIME
    /\ obs_0.active = BEEP_DURATION
    /\ obs_0.silent = BEEP_REPEAT_INTERVAL
    /\ obs_1.silent = BEEP_REPEAT_INTERVAL
    /\ obs_1.n > CHIRP_CYCLE_TIME

\* The envelope shape over one tick of an ACTIVE period, elapsed being the
\* count before the tick.
ShapeOK(elapsed, amplitude, amplitude_next) ==
    /\ (0 <= elapsed /\ elapsed < ATTACK_TIME) => amplitude_next >= amplitude
    /\ (ATTACK_TIME <= elapsed /\ elapsed <= BEEP_DURATION - DECAY_TIME)
          => amplitude_next = amplitude
    /\ elapsed > BEEP_DURATION - DECAY_TIME => amplitude_next <= amplitude

\* C10 (SpecDDS): within an ACTIVE period the amplitude is non-decreasing
\* from tick to tick during the attack, unchanged during the sustain and
\* non-increasing during the decay.
C10_EnvelopeShape ==
    [][ /\ (STATE_L = 0 /\ obs_0'.n # obs_0.n)
            => ShapeOK(count_L, current_amplitude_0, current_amplitude_0')
        /\ (STATE_R = 0 /\ obs_1'.n # obs_1.n)
            => ShapeOK(count_R, current_amplitude_1, current_amplitude_1') ]_vars

\* Core 0 is at the last tick of a beep, its amplitude ramped up and down
\* again; core 1 has completed a whole beep.
C10_Witness ==
    /\ STATE_L = 0
    /\ count_L = BEEP_DURATION - 1
    /\ current_amplitude_0 > 0
    /\ current_amplitude_0 < ATTACK_TIME * attack_inc
    /\ obs_1.active = BEEP_DURATION

\* The variables of core 0's and of core 1's oscillator and envelope, each
\* with the DAC channel its words address.
core0Vars == << phase_accum_main_0, DAC_output_0, current_amplitude_0,
                STATE_L, count_L, DAC_data_L, corenum_0, dac_B >>

core1Vars == << phase_accum_main_1, DAC_output_1, current_amplitude_1,
                STATE_R, count_R, DAC_data_R, corenum_1, dac_A >>

\* C11 (SpecDDS): a tick of core 0's callback leaves unchanged every
\* variable but core 0's own (phase_accum_main_0, current_amplitude_0,
\* count_L, STATE_L, DAC_output_0, DAC_data_L, corenum_0 and the DAC channel
\* its words load): core 1's variables and DAC channel, the shared telemetry
\* (global_counter, fr_max, FFT_count), the semaphores and everything the
\* threads and the DMA channel own stay as they are; likewise a tick of
\* core 1's callback with the cores exchanged.
C11_TickFrame ==
    [][ /\ obs_0'.n # obs_0.n
            => UNCHANGED << core1Vars, obs_1, timer_core_0, threadVars,
                            kernelVars >>
        /\ obs_1'.n # obs_1.n
            => UNCHANGED << core0Vars, obs_0, timer_core_0, threadVars,
                            kernelVars >> ]_vars

\* Core 0's callback is running in ACTIVE and core 1's in SILENT; each has
\* loaded its own DAC channel and written its own variables.
C11_Witness ==
    /\ STATE_L = 0
    /\ count_L > ATTACK_TIME
    /\ STATE_R # 0
    /\ count_R > 0
    /\ DAC_data_L \div 4096 = DAC_config_chan_B \div 4096
    /\ DAC_data_R \div 4096 = DAC_config_chan_A \div 4096
    /\ dac_B = DAC_data_L % 4096
    /\ dac_A = DAC_data_R % 4096
    /\ dac_A # dac_B
    /\ corenum_0 = 0
    /\ corenum_1 = 1

\* The bins above the excluded ones that carry energy.
PeakCandidates == { k \in 5 .. MaxBins - 1 : fr[k] > 0 }

\* C12 (SpecPeak): when the magnitude loop is over, max_fr_dex is never one
\* of the bins 1-4; it is 0 when no bin from 5 up has a positive magnitude,
\* and otherwise it is the lowest bin from 5 up whose magnitude is the
\* maximum over the bins from 5 up, whatever the magnitudes of bins 0-4.
C12_PeakDetection ==
    peak_i = MaxBins =>
        IF PeakCandidates = {}
        THEN max_fr_dex = 0
        ELSE /\ max_fr_dex \in PeakCandidates
             /\ \A k \in 5 .. MaxBins - 1 : fr[k] <= fr[max_fr_dex]
             /\ \A k \in 5 .. max_fr_dex - 1 : fr[k] < fr[max_fr_dex]

\* The search is over: bins 2 and 4 carry more than any bin from 5 up, the
\* maximum from 5 up is in bin 6 and the peak reported is bin 6.
C12_Witness ==
    /\ peak_i = MaxBins
    /\ max_fr_dex = 6
    /\ fr[5] > 0
    /\ fr[5] < fr[6]
    /\ fr[2] > fr[6]
    /\ fr[4] > fr[6]
    /\ fr_max = 6 * 625

\* The index whose low n bits are the low n bits of k in reverse order.
RECURSIVE rev(_, _)
rev(k, n) ==
    IF n = 0 THEN 0 ELSE (k % 2) * 2^(n - 1) + rev(k \div 2, n - 1)

\* The bit-reversal loop of FFTfix is over.
BitrevDone == pc_fft = "fft" /\ log2_n > 0 /\ rev_m = NUM_SAMPLES_M_1(log2_n)

\* C13 (SpecBitrev): when the bit-reversal loop is over, every position m
\* holds the element that was at position rev(m), real and imaginary part
\* alike; every index with rev(m) # m has been part of exactly one swap and
\* the self-pairs of none; for the length 8 the positions hold the elements
\* 0,4,2,6,1,5,3,7.
C13_BitReversal ==
    BitrevDone =>
        /\ \A k \in 0 .. 2^log2_n - 1 :
              /\ fr[k] = RealTag(rev(k, log2_n))
              /\ fi[k] = ImagTag(rev(k, log2_n))
              /\ swapped[k] = IF rev(k, log2_n) = k THEN 0 ELSE 1
        /\ log2_n = 3 => fr = [k \in 0 .. 7 |-> << 0, 4, 2, 6, 1, 5, 3, 7 >>[k + 1]]

\* The loop is over for the program's length, 1024: positions 1 and 512
\* have exchanged their elements, position 0 has kept its own.
C13_Witness ==
    /\ BitrevDone
    /\ log2_n = LOG2_NUM_SAMPLES
    /\ fr[1] = RealTag(512)
    /\ fi[512] = ImagTag(1)
    /\ fr[0] = RealTag(0)
    /\ swapped[1] = 1

\* The 64-bit two's complement of the 32-bit signed x as eight bytes, least
\* significant first.
Bytes64(x) ==
    LET lo  == x % 65536
        hi  == (x \div 65536) % 65536
        ext == IF x < 0 THEN 255 ELSE 0
    IN  << lo % 256, lo \div 256, hi % 256, hi \div 256, ext, ext, ext, ext >>

\* Column k (1 .. 8) of the schoolbook product of the byte strings A and B.
RECURSIVE ColumnSum(_, _, _, _)
ColumnSum(A, B, k, i) ==
    IF i > k THEN 0 ELSE A[i] * B[k + 1 - i] + ColumnSum(A, B, k, i + 1)

\* The carry out of column k of the product.
RECURSIVE Carry(_, _, _)
Carry(A, B, k) ==
    IF k = 0 THEN 0 ELSE (ColumnSum(A, B, k, 1) + Carry(A, B, k - 1)) \div 256

\* Byte k (1 .. 8) of the exact product of a and b, which fits 64 bits.
ProductByte(a, b, k) ==
    (ColumnSum(Bytes64(a), Bytes64(b), k, 1)
        + Carry(Bytes64(a), Bytes64(b), k - 1)) % 256

\* The exact product a * b shifted right arithmetically by 15 bits, reduced
\* modulo 2^32 and read as a signed 32-bit value: bits 15 .. 46 of the
\* product.
ExactShiftedProduct(a, b) ==
    LET lo == (ProductByte(a, b, 2) \div 128) + ProductByte(a, b, 3) * 2
                + (ProductByte(a, b, 4) % 128) * 512
        hi == (ProductByte(a, b, 4) \div 128) + ProductByte(a, b, 5) * 2
                + (ProductByte(a, b, 6) % 128) * 512
    IN  ToSigned32(hi, lo)

\* C14 (SpecFix): for the 32-bit signed operands a and b, multfix15(a, b)
\* is the exact product a * b shifted right arithmetically by 15 bits,
\* reduced modulo 2^32 and read as a signed 32-bit value: it wraps, it does
\* not saturate.
C14_MultiplyWraps ==
    fix_op = "multfix15" => fix_r = ExactShiftedProduct(fix_a, fix_b)

\* The largest operands: the shifted product 2^47 - 2^17 does not fit 32
\* bits and the result is its low 32 bits, -2^17, not the largest fix15.
C14_Witness ==
    /\ fix_op = "multfix15"
    /\ fix_a = 2147483647
    /\ fix_b = 2147483647
    /\ fix_r = -131072

\* C15 (SpecFix): a division never yields a value for the divisor 0 (it
\* reports the division by zero instead), and for a divisor b # 0 the value
\* of div(a, b) times b is within one divisor of a * 2^15: where the
\* dividend and the quotient fit the 32 bits of the model, the value is
\* (a * 2^15) / b truncated towards zero.
C15_DivideByZeroReported ==
    fix_op = "divfix" =>
        /\ fix_b # 0
        /\ (fix_a \in -65535 .. 65535 /\ fix_b \in -2147483647 .. 2147483647) =>
              LET n == fix_a * 32768
                  d == fix_b
                  q == (IF n < 0 THEN -n ELSE n) \div (IF d < 0 THEN -d ELSE d)
              IN  fix_r = IF (n < 0) = (d < 0) THEN q ELSE -q

\* C16 (SpecForever): no reachable state is a deadlock, and in every fair
\* run each core's heartbeat body is entered again and again and the FFT
\* thread completes a transform again and again.
C16_Progress ==
    /\ [](ENABLED << NextForever >>_vars)
    /\ []<>(pc_core_0 = "load")
    /\ []<>(pc_core_1 = "load")
    /\ []<>(pc_fft = "count")

\* Core 1's heartbeat has brought the counter once round, after core 0's
\* body; the FFT thread has just completed a transform and the LED is on.
C16_Witness ==
    /\ pc_core_1 = "print"
    /\ global_counter = 0
    /\ core_0_go = 0
    /\ core_1_go = 0
    /\ pc_fft = "count"
    /\ LED

\* The phase of a heartbeat task at position pc.
Phase(pc) ==
    IF pc = "wait" THEN "WAITING"
    ELSE IF pc = "sleeping" THEN "SLEEPING"
    ELSE IF pc = "signal" THEN "SIGNALING"
    ELSE "RUNNING"

\* The phase changes of the cycle.
PhaseCycle ==
    { << "WAITING", "RUNNING" >>, << "RUNNING", "SLEEPING" >>,
      << "SLEEPING", "SIGNALING" >>, << "SIGNALING", "WAITING" >> }

\* One step as seen from a heartbeat task at pc, going to pc_next, whose
\* signal goes to the semaphore other: the phase changes along the cycle
\* only; the work is done in the order increment, report, reset and is
\* over when the sleep begins; the semaphore is signalled, by one, on the
\* step from SIGNALING back to WAITING and by no other step of the task.
FiringOK(pc, pc_next, other, other_next) ==
    /\ Phase(pc_next) # Phase(pc) => << Phase(pc), Phase(pc_next) >> \in PhaseCycle
    /\ pc_next # pc =>
          << pc, pc_next >> \in
              { << "wait", "load" >>, << "load", "store" >>, << "store", "print" >>,
                << "print", "reset" >>, << "reset", "yield" >>,
                << "yield", "sleeping" >>, << "sleeping", "signal" >>,
                << "signal", "wait" >> }
    /\ << pc, pc_next >> = << "store", "print" >> =>
          global_counter' = global_counter + 1
    /\ << pc, pc_next >> = << "print", "reset" >> =>
          /\ console' # << >>
          /\ console'[1].counter = global_counter
    /\ << pc, pc_next >> = << "reset", "yield" >> => FFT_count' = 0
    /\ << pc, pc_next >> = << "signal", "wait" >> => other_next = other + 1
    /\ (pc_next # pc /\ << pc, pc_next >> # << "signal", "wait" >>) =>
          other_next <= other

\* C17 (Spec): each heartbeat task goes WAITING -> RUNNING -> SLEEPING ->
\* SIGNALING -> WAITING and makes no other change of phase; in a firing the
\* counter is incremented, the line is printed and FFT_count is reset, in
\* this order and before the sleep; the other core's semaphore is signalled
\* once, after the sleep, on the way back to the wait.
C17_HeartbeatCycle ==
    [][ /\ FiringOK(pc_core_0, pc_core_0', core_1_go, core_1_go')
        /\ FiringOK(pc_core_1, pc_core_1', core_0_go, core_0_go')
        /\ global_counter' # global_counter =>
              "store" \in { pc_core_0, pc_core_1 }
        /\ core_1_go' > core_1_go => pc_core_0 = "signal"
        /\ core_0_go' > core_0_go => pc_core_1 = "signal" ]_vars

\* Both heartbeats have gone once round the cycle: core 1 is back at its
\* wait and has signalled core 0, which has not yet taken the signal.
C17_Witness ==
    /\ body_log = << 0, 1 >>
    /\ pc_core_0 = "wait"
    /\ pc_core_1 = "wait"
    /\ core_0_go = 1
    /\ core_1_go = 0
    /\ global_counter = 2
    /\ console # << >>
    /\ console[1].core = 1

\* The phase word ph_next is the phase word ph advanced by incr modulo
\* 2^32, half by half.
PhaseAdvanced(ph, incr, ph_next) ==
    LET carry == IF ph[2] + incr[2] >= 65536 THEN 1 ELSE 0
    IN  /\ ph_next[2] = (ph[2] + incr[2]) % 65536
        /\ ph_next[1] = (ph[1] + incr[1] + carry) % 65536

\* C18 as stated (SpecDDS): on every invocation of a core's callback, in
\* ACTIVE and in SILENT alike, that core's phase accumulator is advanced by
\* its phase increment modulo 2^32.
C18_PhaseEveryTick ==
    [][ /\ obs_0'.n # obs_0.n
            => PhaseAdvanced(phase_accum_main_0, phase_incr_main_0,
                             phase_accum_main_0')
        /\ obs_1'.n # obs_1.n
            => PhaseAdvanced(phase_accum_main_1, phase_incr_main_1,
                             phase_accum_main_1') ]_vars

\* One invocation of a callback: in ACTIVE the phase accumulator is
\* advanced by the phase increment modulo 2^32, in SILENT it is left as it
\* is.
PhaseTickOK(state, ph, incr, ph_next) ==
    IF state = 0 THEN PhaseAdvanced(ph, incr, ph_next) ELSE ph_next = ph

\* C18 as amended (SpecDDS): on every invocation of a core's callback in
\* ACTIVE the phase accumulator is advanced exactly once by the phase
\* increment modulo 2^32; on an invocation in SILENT it is not advanced.
C18_PhaseActiveTicks ==
    [][ /\ obs_0'.n # obs_0.n
            => PhaseTickOK(STATE_L, phase_accum_main_0, phase_incr_main_0,
                           phase_accum_main_0')
        /\ obs_1'.n # obs_1.n
            => PhaseTickOK(STATE_R, phase_accum_main_1, phase_incr_main_1,
                           phase_accum_main_1') ]_vars

\* Core 0 is 100 ticks into its first SILENT period: its phase accumulator
\* holds 10000 * 246960619 modulo 2^32, what the 10000 ticks of the beep
\* left, having wrapped many times.
C18_Witness ==
    /\ STATE_L # 0
    /\ count_L = 100
    /\ obs_0.n = BEEP_DURATION + 100
    /\ phase_accum_main_0 = << 65535, 60336 >>

\* C19 (SpecDDS): attack_inc is divfix(max_amplitude, int2fix15(ATTACK_TIME))
\* and, an ACTIVE period having started from amplitude 0, after its
\* ATTACK_TIME attack ticks (elapsed = ATTACK_TIME) the amplitude equals
\* max_amplitude.
C19_AttackReachesMax ==
    /\ attack_inc = divfix(max_amplitude, int2fix15(ATTACK_TIME))
    /\ (STATE_L = 0 /\ count_L = ATTACK_TIME) => current_amplitude_0 = max_amplitude
    /\ (STATE_R = 0 /\ count_R = ATTACK_TIME) => current_amplitude_1 = max_amplitude

\* The sleeps recorded between consecutive body entries of either core's
\* heartbeat all number n.
SleepsApart(n) ==
    \A c \in {0, 1} :
        \A i \in 1..Len(sleep_obs[c].gaps) : sleep_obs[c].gaps[i] = n

\* C20 as stated (Spec): two consecutive executions of the same core's
\* heartbeat body are separated by one sleep interval (one second), so each
\* core reports once per second.
C20_OneSleepApart == SleepsApart(1)

\* C20 as amended (Spec): two consecutive executions of the same core's
\* heartbeat body are separated by two sleep intervals, its own and then the
\* other core's, which never overlap: each core reports once every two
\* seconds, the two cores together once per second.
C20_TwoSleepsApart ==
    /\ SleepsApart(2)
    /\ ~(pc_core_0 = "sleeping" /\ pc_core_1 = "sleeping")

\* Core 0's heartbeat has entered its body a second time, core 1's body
\* having run in between: two sleeps have elapsed since its first entry.
C20_Witness ==
    /\ body_log = << 0, 1, 0 >>
    /\ sleep_obs[0].gaps = << 2 >>
    /\ sleep_obs[0].slept = 0

\* The heartbeat has completed its wait and has not yet issued its signal.
HoldsToken(pc) == pc \notin { "wait" }

TokensHeld ==
    (IF HoldsToken(pc_core_0) THEN 1 ELSE 0)
        + (IF HoldsToken(pc_core_1) THEN 1 ELSE 0)

\* C22 (Spec): in every reachable state both semaphore counts are 0 or 1,
\* and the two counts plus the number of heartbeats that have completed
\* their wait but not yet issued their signal make exactly 1.
C22_TokenConservation ==
    /\ core_0_go \in {0, 1}
    /\ core_1_go \in {0, 1}
    /\ core_0_go + core_1_go + TokensHeld = 1

\* Core 1's heartbeat holds the token in its sleep: both semaphores are 0
\* and core 0's heartbeat is back at its wait.
C22_Witness ==
    /\ pc_core_1 = "sleeping"
    /\ pc_core_0 = "wait"
    /\ core_0_go = 0
    /\ core_1_go = 0

\* C23 (SpecDDS): the amplitude of either core always stays within
\* [0, max_amplitude]; on every ACTIVE tick the computed sample lies in
\* [0, 4095], so that the top 4 bits of the 16-bit word written to the DAC
\* are exactly the channel configuration (channel B for core 0, channel A
\* for core 1) and its low 12 bits are the sample.
C23_ConfigBitsIntact ==
    [][ /\ current_amplitude_0' \in 0 .. max_amplitude
        /\ current_amplitude_1' \in 0 .. max_amplitude
        /\ (obs_0'.n # obs_0.n /\ STATE_L = 0)
            => /\ DAC_output_0' \in 0 .. 4095
               /\ DAC_data_L' \div 4096 = DAC_config_chan_B \div 4096
               /\ DAC_data_L' % 4096 = DAC_output_0'
        /\ (obs_1'.n # obs_1.n /\ STATE_R = 0)
            => /\ DAC_output_1' \in 0 .. 4095
               /\ DAC_data_R' \div 4096 = DAC_config_chan_A \div 4096
               /\ DAC_data_R' % 4096 = DAC_output_1' ]_vars

\* Core 0 is in its sustain at the top of the envelope and its last sample
\* is near the positive crest of the sine; core 1 is SILENT and its word
\* carries the last sample of its beep.
C23_Witness ==
    /\ STATE_L = 0
    /\ count_L > ATTACK_TIME
    /\ current_amplitude_0 = ATTACK_TIME * attack_inc
    /\ DAC_output_0 > 2900
    /\ DAC_data_L = DAC_config_chan_B + DAC_output_0
    /\ STATE_R # 0
    /\ DAC_output_1 # 2048
    /\ DAC_data_R = DAC_config_chan_A + DAC_output_1

\* The exact product a * b shifted right arithmetically by 15 bits fits the
\* signed 32-bit range: bits 46 .. 63 of the product are all equal.
ShiftedProductFits(a, b) ==
    LET top == << ProductByte(a, b, 6) \div 64, ProductByte(a, b, 7),
                  ProductByte(a, b, 8) >>
    IN  top \in { << 0, 0, 0 >>, << 3, 255, 255 >> }

\* A step of the inner loop that computes a butterfly.
ButterflyStep == dl_pc = "for_i" /\ dl_i < NumSamples(log2_n)

\* C21 (SpecFFT): for windowed 8-bit samples (0 <= real <= 255 * 2^15,
\* imaginary 0) no value computed or stored during a butterfly leaves the
\* signed 32-bit range: the four products fit, the sums and differences
\* that make tr, ti and the new elements do not overflow, and the values
\* stored never exceed the range of the input.
C21_TransformInRange ==
    [][ ButterflyStep =>
            /\ ShiftedProductFits(dl_wr, fr[dl_i + dl_L])
            /\ ShiftedProductFits(dl_wi, fi[dl_i + dl_L])
            /\ ShiftedProductFits(dl_wr, fi[dl_i + dl_L])
            /\ ShiftedProductFits(dl_wi, fr[dl_i + dl_L])
            /\ dl_pc' # "overflow"
            /\ \A ii \in { dl_i, dl_i + dl_L } :
                  /\ fr'[ii] \in -(255 * 32768) .. 255 * 32768
                  /\ fi'[ii] \in -(255 * 32768) .. 255 * 32768 ]_vars

\* The short transform has returned on the constant signal of the highest
\* level: bin 0 holds the mean of the windowed samples, about half of
\* 255 * 2^15, after three halvings.
C21_Witness ==
    /\ dl_pc = "return"
    /\ log2_n = ShortLog2
    /\ fr[0] > 4000000
    /\ fi[0] = 0

\* Where FFTfix is: the bit-reversal index, then the pass, m, the loop
\* the program counter is in, and i.
PcRank(pc) ==
    CASE pc = "reverse" -> 0
      [] pc = "for_m" -> 1
      [] pc = "for_i" -> 2
      [] pc = "while" -> 3
      [] OTHER -> 4

Position ==
    << rev_m, IF dl_pc = "reverse" THEN 0 ELSE 1, dl_passes, dl_m,
       PcRank(dl_pc), dl_i >>

\* p comes before q in the lexicographic order, from component n on.
RECURSIVE Before(_, _, _)
Before(p, q, n) ==
    IF n > Len(p) THEN FALSE
    ELSE p[n] < q[n] \/ (p[n] = q[n] /\ Before(p, q, n + 1))

\* FFTfix has a step to take: the guards of bitrev_step, dl_begin, dl_while,
\* dl_for_m and dl_for_i.
CanStep ==
    \/ pc_fft = "fft" /\ dl_pc = "reverse" /\ rev_m <= NUM_SAMPLES_M_1(log2_n)
    \/ dl_pc \in { "while", "for_m", "for_i" }

\* C24 (SpecFFT): FFTfix terminates (until it has returned it can always
\* take a step, and every step moves it forward through its loops) after
\* exactly log2(N) passes, with L = 1, 2, ..., N/2 and k from log2(N) - 1
\* down to 0, and every index stays in bounds: the bit-reversed index mr is
\* in [0, N); the sine table index j = m << k satisfies 0 <= j < N/2 and
\* j + N/4 < N; the butterfly indices satisfy 0 <= i < j = i + L < N.
C24_TerminatesInBounds ==
    [][ /\ Before(Position, Position', 1)
        /\ dl_pc' # "return" => CanStep'
        /\ rev_m' # rev_m
            => ReversedIndex(rev_m, log2_n) \in 0 .. NumSamples(log2_n) - 1
        /\ (dl_pc = "while" /\ dl_pc' = "for_m")
            => /\ dl_passes' \in 1 .. log2_n
               /\ dl_L = 2^(dl_passes' - 1)
               /\ dl_k = log2_n - dl_passes'
        /\ (dl_pc = "for_m" /\ dl_m < dl_L)
            => /\ dl_j' = dl_m * 2^dl_k
               /\ dl_j' \in 0 .. (NumSamples(log2_n) \div 2) - 1
               /\ dl_j' + NumSamples(log2_n) \div 4 < NumSamples(log2_n)
        /\ ButterflyStep
            => /\ dl_j' = dl_i + dl_L
               /\ 0 <= dl_i
               /\ dl_i < dl_j'
               /\ dl_j' < NumSamples(log2_n)
        /\ dl_pc' # "out_of_bounds"
        /\ dl_pc' = "return"
            => /\ dl_passes' = log2_n
               /\ dl_L' = NumSamples(log2_n)
               /\ dl_k' = -1 ]_vars

\* The short transform has returned after its third pass, the last
\* butterfly having combined elements 3 and 7.
C24_Witness ==
    /\ dl_pc = "return"
    /\ log2_n = ShortLog2
    /\ dl_passes = ShortLog2
    /\ dl_L = NumSamples(ShortLog2)
    /\ dl_k = -1
    /\ dl_j = NumSamples(ShortLog2) - 1
    /\ rev_m = NUM_SAMPLES_M_1(ShortLog2)

====
